---- MODULE Spec2Model ----
(***************************************************************************)
(* A model of the relevance pipeline of the repository: token-budget       *)
(* enforcement (topo-core), the JSONL v0.3 renderer (topo-render), the      *)
(* hybrid scorer (atlas-score), the deep-index build (topo-index,          *)
(* topo-cli), the scanner and the fingerprint (topo-scanner), the index     *)
(* store, rank fusion, the directory walk, file-role classification, the   *)
(* tokenizer, the BM25F scorer and the heuristic scorer.  Each component    *)
(* has its own specification over the shared variables; a component's      *)
(* actions leave the other components' variables unchanged.                *)
(***************************************************************************)
EXTENDS Integers, Sequences, FiniteSets, TLC

VARIABLES
    budget,      \* the TokenBudget value: max_bytes and max_tokens, each an Option
    bIn,         \* the scored list handed to TokenBudget::enforce
    bOut,        \* the list TokenBudget::enforce returned
    bCalled      \* TRUE once enforce has returned

VARIABLES
    writer,      \* the JsonlWriter: query, preset, max_bytes, min_score
    rFiles,      \* the scored list handed to JsonlWriter::render
    rScanned,    \* the scanned_count argument of render
    rOut,        \* the text render returned, one element per character or number
    rDone        \* TRUE once render has returned

VARIABLES
    hScorer,     \* the HybridScorer: bm25f_weight and heuristic_weight
    hIn,         \* the FileInfo list handed to score or score_with_index
    hOut,        \* the ScoredFile list it returned
    hDone        \* TRUE once it has returned

VARIABLES
    tree,        \* the repository tree: the content each path holds, or Absent
    disk,        \* <root>/.topo/index.bin: None, or the DeepIndex last saved
    run          \* what the last run of the index command scanned and built

VARIABLES
    gA,          \* the first file list handed to fingerprint::generate
    gB,          \* the second file list handed to it
    gOutA,       \* the fingerprint of the first list
    gOutB,       \* the fingerprint of the second list
    gDone        \* TRUE once both calls have returned

VARIABLES
    fs,          \* the tree under the root: the content of each file name, <<>> for none
    fault,       \* the file whose scan fails and the step at which it fails, if any
    sPrev,       \* the bundle of the scan before the last change of the tree, or of
                 \* the scan before the last when the tree has not changed since
    sLast        \* the bundle of the last scan, none since the tree last changed

VARIABLES
    stDir,       \* <root>/.topo: the inode each file name refers to, or NoInode
    stInode,     \* the chunks each inode holds
    stSaves,     \* the number of saves that have returned
    stWriter,    \* the save in progress and the chunks it has written
    stReader,    \* the load in progress in a concurrent process, or its result
    stCmd        \* the outcome of the last inspect or index command

VARIABLES
    fusion,      \* the RrfFusion: k
    fRankings,   \* the rankings handed to RrfFusion::fuse
    fOut,        \* the results of the first call of fuse
    fAgain,      \* the results of a second call of fuse on the same rankings
    fBase,       \* the base list handed to fuse_scored
    fAdditional, \* the additional rankings handed to fuse_scored
    fBaseOut,    \* the base list when fuse_scored returns
    fCalled      \* which of fuse and fuse_scored has been called, "none" before

VARIABLES
    wTree,       \* the entries under the scanned root: the node each path holds
    wRoot,       \* whether the root itself can be read
    wOut         \* what Scanner::scan returned for the tree, none before the call

VARIABLES
    cPath,       \* the path last handed to FileRole::from_path
    cRole        \* the role it returned

VARIABLES
    tIn,         \* the text handed to Tokenizer::tokenize
    tPieces,     \* the sub-tokens it met, before lowercasing and filtering
    tOut,        \* the tokens it returned
    tAgain,      \* the tokens of tokenize on tOut joined by spaces
    tDone        \* TRUE once tokenize has returned

VARIABLES
    mScorer,     \* the Bm25fScorer: its query tokens and corpus statistics
    mDoc,        \* the term frequencies and length of the document scored
    mScore,      \* the score returned: the terms added to 0.0
    mCalled      \* which of score and score_path has been called, "none" before

VARIABLES
    uScorer,     \* the HeuristicScorer: its query tokens
    uIn,         \* the file scored: its path in both spellings, role and size
    uOut,        \* the score of each spelling
    uDone        \* TRUE once both calls have returned

budgetVars == <<budget, bIn, bOut, bCalled>>
renderVars == <<writer, rFiles, rScanned, rOut, rDone>>
hybridVars == <<hScorer, hIn, hOut, hDone>>
indexVars == <<tree, disk, run>>

fpVars == <<gA, gB, gOutA, gOutB, gDone>>

pipelineVars == <<budgetVars, renderVars, hybridVars, indexVars>>
scanVars == <<fs, fault, sPrev, sLast>>

storeVars == <<stDir, stInode, stSaves, stWriter, stReader, stCmd>>

fusionVars == <<fusion, fRankings, fOut, fAgain, fBase, fAdditional, fBaseOut, fCalled>>

repoVars == <<fpVars, scanVars, storeVars, fusionVars>>

walkVars == <<wTree, wRoot, wOut>>

roleVars == <<cPath, cRole>>

tokVars == <<tIn, tPieces, tOut, tAgain, tDone>>

bm25fVars == <<mScorer, mDoc, mScore, mCalled>>

heurVars == <<uScorer, uIn, uOut, uDone>>

extVars == <<walkVars, roleVars, tokVars, bm25fVars, heurVars>>

vars == <<pipelineVars, repoVars, extVars>>

(***************************************************************************)
(* Shared value shapes.                                                    *)
(***************************************************************************)

\* Option<u64>: None, or Some(v).
None == [some |-> FALSE, v |-> 0]
Some(n) == [some |-> TRUE, v |-> n]

\* The longest file list the model draws.
MaxFiles == 3
\* The largest token count of one file.
MaxTokens == 2
\* The largest max_tokens cap; max_bytes caps run up to BytesPerToken times it.
MaxCap == 3

\* Paths are sequences of characters; NamedPath(i) is the i-th file's path.
NamedPath(i) == <<"f", ToString(i)>>

\* A ScoredFile as the renderer and the budget enforcer see it.
ScoredFile(p, s, t) ==
    [path |-> p, score |-> s, tokens |-> t, language |-> "rust", role |-> "impl"]

(***************************************************************************)
(* TokenBudget (topo-core).                                                *)
(***************************************************************************)

\* Bytes are approximated as tokens * 4.
BytesPerToken == 4

\* TokenBudget { max_bytes, max_tokens }.
TokenBudget(mb, mt) == [max_bytes |-> mb, max_tokens |-> mt]

\* A variant of the walk that skips an overflowing file and goes on
\* (pick-any-subset instead of greedy prefix).
RECURSIVE EnforceSkipFrom(_, _, _, _, _)
EnforceSkipFrom(b, files, i, total_bytes, total_tokens) ==
    IF i > Len(files) THEN <<>>
    ELSE LET file_bytes == files[i].tokens * BytesPerToken
             over_bytes == b.max_bytes.some /\ total_bytes + file_bytes > b.max_bytes.v
             over_tokens == b.max_tokens.some
                              /\ total_tokens + files[i].tokens > b.max_tokens.v
         IN  IF i > 1 /\ (over_bytes \/ over_tokens)
             THEN EnforceSkipFrom(b, files, i + 1, total_bytes, total_tokens)
             ELSE <<files[i]>> \o EnforceSkipFrom(b, files, i + 1,
                                                  total_bytes + file_bytes,
                                                  total_tokens + files[i].tokens)

EnforceSkip(b, files) == EnforceSkipFrom(b, files, 1, 0, 0)

\* A variant of the walk without the first-file guarantee.
RECURSIVE EnforceStrictFrom(_, _, _, _, _)
EnforceStrictFrom(b, files, i, total_bytes, total_tokens) ==
    IF i > Len(files) THEN <<>>
    ELSE LET file_bytes == files[i].tokens * BytesPerToken
             over_bytes == b.max_bytes.some /\ total_bytes + file_bytes > b.max_bytes.v
             over_tokens == b.max_tokens.some
                              /\ total_tokens + files[i].tokens > b.max_tokens.v
         IN  IF over_bytes \/ over_tokens
             THEN <<>>
             ELSE <<files[i]>> \o EnforceStrictFrom(b, files, i + 1,
                                                    total_bytes + file_bytes,
                                                    total_tokens + files[i].tokens)

EnforceStrict(b, files) == EnforceStrictFrom(b, files, 1, 0, 0)

\* A variant of the walk that tests each file alone against the caps instead
\* of the cumulative sums.
RECURSIVE EnforceAloneFrom(_, _, _)
EnforceAloneFrom(b, files, i) ==
    IF i > Len(files) THEN <<>>
    ELSE LET file_bytes == files[i].tokens * BytesPerToken
             over_bytes == b.max_bytes.some /\ file_bytes > b.max_bytes.v
             over_tokens == b.max_tokens.some /\ files[i].tokens > b.max_tokens.v
         IN  IF i > 1 /\ (over_bytes \/ over_tokens)
             THEN <<>>
             ELSE <<files[i]>> \o EnforceAloneFrom(b, files, i + 1)

EnforceAlone(b, files) == EnforceAloneFrom(b, files, 1)

\* The walk of TokenBudget::enforce from file i on, with the running sums of
\* the files included so far.  The first file is always included; the walk
\* ends at the first later file that would push either running sum over a cap
\* that is set.
RECURSIVE EnforceFrom(_, _, _, _, _)
EnforceFrom(b, files, i, total_bytes, total_tokens) ==
    IF i > Len(files) THEN <<>>
    ELSE LET file_bytes == files[i].tokens * BytesPerToken
             over_bytes == b.max_bytes.some /\ total_bytes + file_bytes > b.max_bytes.v
             over_tokens == b.max_tokens.some
                              /\ total_tokens + files[i].tokens > b.max_tokens.v
         IN  IF i > 1 /\ (over_bytes \/ over_tokens)
             THEN <<>>
             ELSE <<files[i]>> \o EnforceFrom(b, files, i + 1,
                                              total_bytes + file_bytes,
                                              total_tokens + files[i].tokens)

\* TokenBudget::enforce(&self, files) -> Vec<ScoredFile>.
Enforce(b, files) == EnforceFrom(b, files, 1, 0, 0)

\* The caps a caller may set.
ByteCaps == {None} \cup {Some(n) : n \in 0..(BytesPerToken * MaxCap)}
TokenCaps == {None} \cup {Some(n) : n \in 0..MaxCap}

\* The scored lists a caller may pass: unique paths, any token counts.
BudgetInputs ==
    UNION {{[i \in 1..n |-> ScoredFile(NamedPath(i), MaxFiles - i, t[i])] :
               t \in [1..n -> 0..MaxTokens]} : n \in 0..MaxFiles}

BudgetStart ==
    /\ budget = TokenBudget(None, None)
    /\ bIn = <<>>
    /\ bOut = <<>>
    /\ bCalled = FALSE

\* The caller builds the TokenBudget value.
NewBudget ==
    /\ ~bCalled
    /\ \E mb \in ByteCaps, mt \in TokenCaps : budget' = TokenBudget(mb, mt)
    /\ UNCHANGED <<bIn, bOut, bCalled>>
    /\ UNCHANGED <<renderVars, hybridVars, indexVars, repoVars, extVars>>

\* budget.enforce(&files); enforce borrows self and files and reads nothing
\* else, so one call per behaviour covers every call.
EnforceCall ==
    /\ ~bCalled
    /\ \E files \in BudgetInputs :
          /\ bIn' = files
          /\ bOut' = Enforce(budget, files)
    /\ bCalled' = TRUE
    /\ UNCHANGED budget
    /\ UNCHANGED <<renderVars, hybridVars, indexVars, repoVars, extVars>>

(***************************************************************************)
(* JsonlWriter (topo-render).  The text written is a sequence of elements: *)
(* a character (or a run of characters that holds none of the characters    *)
(* JSON escapes), a JSON key with its quotes and colon, or a number.        *)
(***************************************************************************)

\* The largest score, in the model's score unit, of a rendered file.
MaxScore == 2
\* The longest list handed to the renderer.
MaxRenderFiles == 2
\* How far scanned_count may exceed the number of files rendered.
MaxScannedExtra == 1

Ch(c) == [t |-> "ch", c |-> c, n |-> 0]
Key(k) == [t |-> "key", c |-> k, n |-> 0]
Num(n) == [t |-> "num", c |-> "", n |-> n]
LF == Ch("\n")

\* serde_json's string escaping: a quote, a backslash and a line feed are
\* written as two characters, a backslash and a letter.
RECURSIVE EscapeChars(_)
EscapeChars(s) ==
    IF s = <<>> THEN <<>>
    ELSE LET c == Head(s)
             e == IF c = "\n" THEN <<Ch("\\"), Ch("n")>>
                  ELSE IF c = "\"" THEN <<Ch("\\"), Ch("\"")>>
                  ELSE IF c = "\\" THEN <<Ch("\\"), Ch("\\")>>
                  ELSE <<Ch(c)>>
         IN  e \o EscapeChars(Tail(s))

\* A variant that writes the characters of a string raw.
RECURSIVE RawChars(_)
RawChars(s) == IF s = <<>> THEN <<>> ELSE <<Ch(Head(s))>> \o RawChars(Tail(s))

JsonStringRaw(s) == <<Ch("\"")>> \o RawChars(s) \o <<Ch("\"")>>

\* A string as serde_json writes it.
JsonString(s) == <<Ch("\"")>> \o EscapeChars(s) \o <<Ch("\"")>>

\* struct Budget, with max_bytes skipped when it is None.
SerBudget(max_bytes) ==
    <<Ch("{")>>
    \o (IF max_bytes.some THEN <<Key("MaxBytes"), Num(max_bytes.v)>> ELSE <<>>)
    \o <<Ch("}")>>

\* struct Header, serialized with PascalCase keys.
SerHeader(h) ==
    <<Ch("{"), Key("Version")>> \o JsonString(h.version)
    \o <<Ch(","), Key("Query")>> \o JsonString(h.query)
    \o <<Ch(","), Key("Preset")>> \o JsonString(h.preset)
    \o <<Ch(","), Key("Budget")>> \o SerBudget(h.budget)
    \o <<Ch(","), Key("MinScore"), Num(h.min_score), Ch("}")>>

\* struct FileEntry.
SerFileEntry(e) ==
    <<Ch("{"), Key("Path")>> \o JsonString(e.path)
    \o <<Ch(","), Key("Score"), Num(e.score)>>
    \o <<Ch(","), Key("Tokens"), Num(e.tokens)>>
    \o <<Ch(","), Key("Language")>> \o JsonString(<<e.language>>)
    \o <<Ch(","), Key("Role")>> \o JsonString(<<e.role>>)
    \o <<Ch("}")>>

\* struct Footer.
SerFooter(f) ==
    <<Ch("{"), Key("TotalFiles"), Num(f.total_files),
      Ch(","), Key("TotalTokens"), Num(f.total_tokens),
      Ch(","), Key("ScannedFiles"), Num(f.scanned_files), Ch("}")>>

\* The loop over files of write_to: one serialized entry and a line feed per
\* file, with total_tokens accumulated; returns the text and the total.
RECURSIVE WriteEntries(_, _, _)
WriteEntries(files, i, total_tokens) ==
    IF i > Len(files) THEN [text |-> <<>>, total_tokens |-> total_tokens]
    ELSE LET rest == WriteEntries(files, i + 1, total_tokens + files[i].tokens)
         IN  [text |-> SerFileEntry(files[i]) \o <<LF>> \o rest.text,
              total_tokens |-> rest.total_tokens]

\* A variant of write_to whose footer counts scanned_count as TotalFiles and
\* does not accumulate the tokens.
WriteToBadFooter(w, files, scanned_count) ==
    LET header == [version |-> <<"0", ".", "3">>, query |-> w.query,
                   preset |-> w.preset, budget |-> w.max_bytes,
                   min_score |-> w.min_score]
        entries == WriteEntries(files, 1, 0)
        footer == [total_files |-> scanned_count, total_tokens |-> 0,
                   scanned_files |-> scanned_count]
    IN  SerHeader(header) \o <<LF>> \o entries.text \o SerFooter(footer) \o <<LF>>

\* JsonlWriter::write_to: the header and a line feed, every file of the list
\* as an entry and a line feed, the footer and a line feed.  min_score is
\* written into the header and is not compared with any file's score.
WriteTo(w, files, scanned_count) ==
    LET header == [version |-> <<"0", ".", "3">>, query |-> w.query,
                   preset |-> w.preset, budget |-> w.max_bytes,
                   min_score |-> w.min_score]
        entries == WriteEntries(files, 1, 0)
        footer == [total_files |-> Len(files),
                   total_tokens |-> entries.total_tokens,
                   scanned_files |-> scanned_count]
    IN  SerHeader(header) \o <<LF>> \o entries.text \o SerFooter(footer) \o <<LF>>

\* JsonlWriter::new(query, preset).
NewWriter(query, preset) ==
    [query |-> query, preset |-> preset, max_bytes |-> None, min_score |-> 0]

\* The queries a caller may pass; one holds a quote and a line feed.
Queries == {<<"auth">>, <<"a", "\"", "\n", "b">>}

\* The paths of the i-th rendered file; the first file's may hold a line feed.
RenderPaths(i) ==
    IF i = 1 THEN {NamedPath(i), <<"f", "\n", ToString(i)>>} ELSE {NamedPath(i)}

\* The lists a caller may pass: scorer output, so sorted by score descending.
RenderInputs ==
    UNION {{[i \in 1..n |-> ScoredFile(p[i], s[i], t[i])] :
               p \in {q \in [1..n -> UNION {RenderPaths(i) : i \in 1..n}] :
                         \A i \in 1..n : q[i] \in RenderPaths(i)},
               s \in {q \in [1..n -> 0..MaxScore] :
                         \A i \in 1..n : \A j \in i..n : q[i] >= q[j]},
               t \in [1..n -> 1..MaxTokens]} : n \in 0..MaxRenderFiles}

RenderStart ==
    /\ writer \in {NewWriter(q, <<"balanced">>) : q \in Queries}
    /\ rFiles = <<>>
    /\ rScanned = 0
    /\ rOut = <<>>
    /\ rDone = FALSE

\* JsonlWriter::max_bytes(self, max_bytes).
SetMaxBytes ==
    /\ ~rDone
    /\ \E mb \in {None, Some(BytesPerToken * MaxCap)} :
          writer' = [writer EXCEPT !.max_bytes = mb]
    /\ UNCHANGED <<rFiles, rScanned, rOut, rDone>>
    /\ UNCHANGED <<budgetVars, hybridVars, indexVars, repoVars, extVars>>

\* JsonlWriter::min_score(self, min_score).
SetMinScore ==
    /\ ~rDone
    /\ \E m \in 0..MaxScore : writer' = [writer EXCEPT !.min_score = m]
    /\ UNCHANGED <<rFiles, rScanned, rOut, rDone>>
    /\ UNCHANGED <<budgetVars, hybridVars, indexVars, repoVars, extVars>>

\* JsonlWriter::render(&self, files, scanned_count): write_to into a buffer.
Render ==
    /\ ~rDone
    /\ \E files \in RenderInputs :
       \E scanned \in {0, Len(files), Len(files) + MaxScannedExtra} :
          /\ rFiles' = files
          /\ rScanned' = scanned
          /\ rOut' = WriteTo(writer, files, scanned)
    /\ rDone' = TRUE
    /\ UNCHANGED writer
    /\ UNCHANGED <<budgetVars, hybridVars, indexVars, repoVars, extVars>>

(***************************************************************************)
(* HybridScorer (atlas-score).  Scores and weights are floats in the code  *)
(* and exact fractions here.  The BM25F and heuristic values of a file are *)
(* computed by other scorers from the query and the path; the combiner and *)
(* its sort see them as numbers, drawn here from a small range.            *)
(***************************************************************************)

\* The longest list handed to the hybrid scorer.
MaxHybridFiles == 3
\* The largest BM25F or heuristic value of one file, in the model's unit.
MaxSignal == 1
\* The largest custom weight passed to HybridScorer::weights.
MaxWeight == 1

Frac(n, d) == [num |-> n, den |-> d]

\* a < b for fractions with positive denominators.
FracLess(a, b) == a.num * b.den < b.num * a.den

FracAdd(a, b) == Frac(a.num * b.den + b.num * a.den, a.den * b.den)

FracScale(a, k) == Frac(a.num * k, a.den)

\* DEFAULT_BM25F_WEIGHT = 0.6 and DEFAULT_HEURISTIC_WEIGHT = 0.4.
DEFAULT_BM25F_WEIGHT == Frac(6, 10)
DEFAULT_HEURISTIC_WEIGHT == Frac(4, 10)

\* HybridScorer::new(query).
NewHybridScorer ==
    [bm25f_weight |-> DEFAULT_BM25F_WEIGHT, heuristic_weight |-> DEFAULT_HEURISTIC_WEIGHT]

\* HybridScorer::weights(self, bm25f, heuristic): normalized to sum to 1, and
\* left as they are when the sum is not positive.
WithWeights(scorer, bm25f, heuristic) ==
    LET total == bm25f + heuristic
    IN  IF total > 0
        THEN [bm25f_weight |-> Frac(bm25f, total), heuristic_weight |-> Frac(heuristic, total)]
        ELSE scorer

\* FileInfo, with the fields the scorer reads.
FileInfo(p, size) == [path |-> p, size |-> size, language |-> "rust", role |-> "impl"]

\* FileInfo::estimated_tokens: size / 4, integer division.
EstimatedTokens(f) == f.size \div BytesPerToken

\* The closure of the map: one ScoredFile per FileInfo, with the combined
\* score bm25f_weight * bm25f_score + heuristic_weight * heuristic_score.
ScoreOne(scorer, f, bm25f_score, heuristic_score) ==
    [path |-> f.path,
     score |-> FracAdd(FracScale(scorer.bm25f_weight, bm25f_score),
                       FracScale(scorer.heuristic_weight, heuristic_score)),
     signals |-> [bm25f |-> bm25f_score, heuristic |-> heuristic_score],
     tokens |-> EstimatedTokens(f),
     language |-> f.language,
     role |-> f.role]

\* The comparator of sort_by: b.score.partial_cmp(&a.score) is Less when
\* b.score < a.score, so the higher score sorts first.
CmpLess(a, b) == FracLess(b.score, a.score)

\* A comparator that sorts ascending.
CmpLessAscending(a, b) == FracLess(a.score, b.score)

\* Insertion of x into a sorted list after every element it does not
\* strictly precede.
RECURSIVE InsertStable(_, _)
InsertStable(sorted, x) ==
    IF sorted = <<>> THEN <<x>>
    ELSE LET last == sorted[Len(sorted)]
         IN  IF CmpLess(x, last)
             THEN Append(InsertStable(SubSeq(sorted, 1, Len(sorted) - 1), x), last)
             ELSE Append(sorted, x)

\* An insertion that also moves x before the elements it ties with.
RECURSIVE InsertUnstable(_, _)
InsertUnstable(sorted, x) ==
    IF sorted = <<>> THEN <<x>>
    ELSE LET last == sorted[Len(sorted)]
         IN  IF ~CmpLess(last, x)
             THEN Append(InsertUnstable(SubSeq(sorted, 1, Len(sorted) - 1), x), last)
             ELSE Append(sorted, x)

RECURSIVE InsertAscending(_, _)
InsertAscending(sorted, x) ==
    IF sorted = <<>> THEN <<x>>
    ELSE LET last == sorted[Len(sorted)]
         IN  IF CmpLessAscending(x, last)
             THEN Append(InsertAscending(SubSeq(sorted, 1, Len(sorted) - 1), x), last)
             ELSE Append(sorted, x)

RECURSIVE SortUnstableFrom(_, _, _)
SortUnstableFrom(scored, i, acc) ==
    IF i > Len(scored) THEN acc
    ELSE SortUnstableFrom(scored, i + 1, InsertUnstable(acc, scored[i]))

RECURSIVE SortAscendingFrom(_, _, _)
SortAscendingFrom(scored, i, acc) ==
    IF i > Len(scored) THEN acc
    ELSE SortAscendingFrom(scored, i + 1, InsertAscending(acc, scored[i]))

\* An unstable sort by score descending.
SortByScoreUnstable(scored) == SortUnstableFrom(scored, 1, <<>>)

\* A stable sort by score ascending.
SortByScoreAscending(scored) == SortAscendingFrom(scored, 1, <<>>)

RECURSIVE SortFrom(_, _, _)
SortFrom(scored, i, acc) ==
    IF i > Len(scored) THEN acc
    ELSE SortFrom(scored, i + 1, InsertStable(acc, scored[i]))

\* scored.sort_by(|a, b| b.score.partial_cmp(&a.score).unwrap_or(Equal)):
\* slice::sort_by is a stable sort, and the result of a stable sort under a
\* total preorder is the one an insertion sort gives.
SortByScore(scored) == SortFrom(scored, 1, <<>>)

\* HybridScorer::score: an empty list for an empty input; otherwise one
\* ScoredFile per file from bm25f.score_path and heuristic.score, sorted.
HybridScore(scorer, files, bm25f_path, heuristic) ==
    IF files = <<>> THEN <<>>
    ELSE SortByScore([i \in 1..Len(files) |->
                         ScoreOne(scorer, files[i], bm25f_path[i], heuristic[i])])

\* HybridScorer::score_with_index: as score, with the BM25F value of a file
\* taken from its indexed term frequencies when term_freqs holds its path and
\* from score_path otherwise.
HybridScoreWithIndex(scorer, files, in_index, bm25f_index, bm25f_path, heuristic) ==
    IF files = <<>> THEN <<>>
    ELSE SortByScore([i \in 1..Len(files) |->
                         ScoreOne(scorer, files[i],
                                  IF in_index[i] THEN bm25f_index[i] ELSE bm25f_path[i],
                                  heuristic[i])])

\* The lists a caller may pass: scanner output, so unique paths.
HybridInputs ==
    {[i \in 1..n |-> FileInfo(NamedPath(i), BytesPerToken * i + 1)] : n \in 0..MaxHybridFiles}

HybridStart ==
    /\ hScorer = NewHybridScorer
    /\ hIn = <<>>
    /\ hOut = <<>>
    /\ hDone = FALSE

\* HybridScorer::new(query).weights(bm25f, heuristic).
Weights ==
    /\ ~hDone
    /\ \E b \in 0..MaxWeight, h \in 0..MaxWeight : hScorer' = WithWeights(hScorer, b, h)
    /\ UNCHANGED <<hIn, hOut, hDone>>
    /\ UNCHANGED <<budgetVars, renderVars, indexVars, repoVars, extVars>>

\* scorer.score(&files).
Score ==
    /\ ~hDone
    /\ \E files \in HybridInputs :
       \E bm \in [1..Len(files) -> 0..MaxSignal], he \in [1..Len(files) -> 0..MaxSignal] :
          /\ hIn' = files
          /\ hOut' = HybridScore(hScorer, files, bm, he)
    /\ hDone' = TRUE
    /\ UNCHANGED hScorer
    /\ UNCHANGED <<budgetVars, renderVars, indexVars, repoVars, extVars>>

\* scorer.score_with_index(&files, &term_freqs, stats).  Where a file is in
\* term_freqs its score_path value is not computed, so one value per file is
\* drawn together with where it came from.
ScoreWithIndex ==
    /\ ~hDone
    /\ \E files \in HybridInputs :
       \E in_index \in [1..Len(files) -> BOOLEAN],
          bm \in [1..Len(files) -> 0..MaxSignal],
          he \in [1..Len(files) -> 0..MaxSignal] :
          /\ hIn' = files
          /\ hOut' = HybridScoreWithIndex(hScorer, files, in_index, bm, bm, he)
    /\ hDone' = TRUE
    /\ UNCHANGED hScorer
    /\ UNCHANGED <<budgetVars, renderVars, indexVars, repoVars, extVars>>

(***************************************************************************)
(* The deep index: `topo index` (topo-cli), IndexBuilder and the store     *)
(* (topo-index), CorpusStats (topo-score).  The file tree maps each path   *)
(* to the content it holds, 0 for a path that holds no file.               *)
(***************************************************************************)

\* The number of paths of the repository tree.
NumPaths == 2
\* The number of distinct file contents.
NumContents == 2

Paths == 1..NumPaths
Contents == 1..NumContents
Absent == 0

\* The terms the tokenizer yields: TermName(k) is the k-th term.
TermName(k) == <<"t", ToString(k)>>

\* sha256 of a content: collision-free, so one digest per content.
Sha(c) == <<"sha256", ToString(c)>>

\* The size in bytes of a content.
SizeOf(c) == BytesPerToken * c + 1

\* The tokens of a path (its filename field), of the chunk names of a content
\* (its symbols field) and of a content (its body field).
FilenameTokens(p) == <<TermName(p)>>
SymbolTokens(c) == <<TermName(c)>>
BodyTokens(c) == [k \in 1..c |-> TermName(k)]

\* How often term t occurs in a token list.
CountIn(tokens, t) == Cardinality({k \in 1..Len(tokens) : tokens[k] = t})

TokenSet(tokens) == {tokens[k] : k \in 1..Len(tokens)}

\* TermFreqs { filename, symbols, body }.
TermFreqs(f, s, b) == [filename |-> f, symbols |-> s, body |-> b]

\* The sum of f over the finite set S.
RECURSIVE SumOver(_, _)
SumOver(S, f) ==
    IF S = {} THEN 0
    ELSE LET x == CHOOSE y \in S : TRUE IN f[x] + SumOver(S \ {x}, f)

\* The FileEntry of a file that is read and indexed: the term frequencies of
\* its three fields in one map, doc_length their sum, the chunks, and the
\* sha256 copied from the FileInfo.
IndexFile(file, c) ==
    LET fn == FilenameTokens(file.id)
        sy == SymbolTokens(c)
        bo == BodyTokens(c)
        terms == TokenSet(fn) \cup TokenSet(sy) \cup TokenSet(bo)
        tf == [t \in terms |-> TermFreqs(CountIn(fn, t), CountIn(sy, t), CountIn(bo, t))]
    IN  [sha256 |-> file.sha256,
         chunks |-> sy,
         term_frequencies |-> tf,
         doc_length |-> SumOver(terms, [t \in terms |-> tf[t].filename + tf[t].symbols + tf[t].body])]

\* The ascending list of the elements of a set of numbers.
RECURSIVE SortedSeq(_)
SortedSeq(S) ==
    IF S = {} THEN <<>>
    ELSE LET m == CHOOSE x \in S : \A y \in S : x <= y IN <<m>> \o SortedSeq(S \ {m})

\* The loop of CorpusStats::from_documents over docs from index i on: one more
\* document, its doc_length added, and every key of its term_frequencies
\* counted once.
RECURSIVE FromDocumentsLoop(_, _, _, _, _)
FromDocumentsLoop(docs, i, total_docs, total_length, doc_frequencies) ==
    IF i > Len(docs)
    THEN [total_docs |-> total_docs, total_length |-> total_length,
          doc_frequencies |-> doc_frequencies]
    ELSE LET keys == DOMAIN docs[i].term_frequencies
             df == [t \in (DOMAIN doc_frequencies) \cup keys |->
                       (IF t \in DOMAIN doc_frequencies THEN doc_frequencies[t] ELSE 0)
                       + (IF t \in keys THEN 1 ELSE 0)]
         IN  FromDocumentsLoop(docs, i + 1, total_docs + 1,
                               total_length + docs[i].doc_length, df)

\* A variant whose doc_frequencies count occurrences instead of documents and
\* whose average for an empty corpus is 0.
RECURSIVE FromDocumentsOccLoop(_, _, _, _, _)
FromDocumentsOccLoop(docs, i, total_docs, total_length, doc_frequencies) ==
    IF i > Len(docs)
    THEN [total_docs |-> total_docs, total_length |-> total_length,
          doc_frequencies |-> doc_frequencies]
    ELSE LET tf == docs[i].term_frequencies
             keys == DOMAIN tf
             df == [t \in (DOMAIN doc_frequencies) \cup keys |->
                       (IF t \in DOMAIN doc_frequencies THEN doc_frequencies[t] ELSE 0)
                       + (IF t \in keys
                          THEN tf[t].filename + tf[t].symbols + tf[t].body ELSE 0)]
         IN  FromDocumentsOccLoop(docs, i + 1, total_docs + 1,
                                  total_length + docs[i].doc_length, df)

FromDocumentsOccurrences(docs) ==
    LET r == FromDocumentsOccLoop(docs, 1, 0, 0, <<>>)
    IN  [total_docs |-> r.total_docs,
         avg_doc_length |-> IF r.total_docs > 0 THEN Frac(r.total_length, r.total_docs)
                            ELSE Frac(0, 1),
         doc_frequencies |-> r.doc_frequencies]

\* CorpusStats::from_documents: total_docs, doc_frequencies, and
\* avg_doc_length = total_length / total_docs, or 1.0 for no documents.
FromDocuments(docs) ==
    LET r == FromDocumentsLoop(docs, 1, 0, 0, <<>>)
    IN  [total_docs |-> r.total_docs,
         avg_doc_length |-> IF r.total_docs > 0 THEN Frac(r.total_length, r.total_docs)
                            ELSE Frac(1, 1),
         doc_frequencies |-> r.doc_frequencies]

\* The files a scan of the tree lists, sorted by path: path, size and sha256
\* of every path that holds a file.  id is the model's number of the path.
ScanFiles(tr) ==
    LET present == SortedSeq({p \in Paths : tr[p] # Absent})
    IN  [i \in 1..Len(present) |->
            [id |-> present[i], path |-> NamedPath(present[i]),
             size |-> SizeOf(tr[present[i]]), sha256 |-> Sha(tr[present[i]])]]

\* The existing index holds an entry for the file with the same sha256.
Reusable(file, existing) ==
    /\ existing.some
    /\ file.path \in DOMAIN existing.v.files
    /\ existing.v.files[file.path].sha256 = file.sha256

\* The DeepIndex over a set of entries with its statistics recomputed from
\* scratch.
MakeIndex(entries) ==
    LET order == SortedSeq({p \in Paths : NamedPath(p) \in DOMAIN entries})
        stats == FromDocuments([i \in 1..Len(order) |-> entries[NamedPath(order[i])]])
    IN  [version |-> 1,
         files |-> entries,
         doc_frequencies |-> stats.doc_frequencies,
         avg_doc_length |-> stats.avg_doc_length,
         total_docs |-> stats.total_docs]

\* A variant of the build that never reuses an entry.
BuildNoReuse(files, existing, tr, unreadable) ==
    LET idx == 1..Len(files)
        read == {i \in idx : TRUE}
        kept == {i \in idx : files[i].id \notin unreadable}
        entries == [q \in {files[i].path : i \in kept} |->
                       LET i == CHOOSE j \in kept : files[j].path = q
                       IN  IndexFile(files[i], tr[files[i].id])]
    IN  [index |-> MakeIndex(entries),
         reindexed |-> Cardinality(kept),
         read |-> {files[i].path : i \in read}]

\* IndexBuilder::build(files, existing): a file whose path and sha256 match an
\* entry of existing keeps that entry verbatim and is not read; any other
\* file is read and indexed, and omitted when the read fails; the statistics
\* are recomputed over the resulting entries.  Returns the index, the number
\* of files reindexed and (for the model) the paths it read.
Build(files, existing, tr, unreadable) ==
    LET idx == 1..Len(files)
        reused == {i \in idx : Reusable(files[i], existing)}
        read == idx \ reused
        indexed == {i \in read : files[i].id \notin unreadable}
        kept == reused \cup indexed
        entries == [q \in {files[i].path : i \in kept} |->
                       LET i == CHOOSE j \in kept : files[j].path = q
                       IN  IF i \in reused THEN existing.v.files[q]
                           ELSE IndexFile(files[i], tr[files[i].id])]
    IN  [index |-> MakeIndex(entries),
         reindexed |-> Cardinality(indexed),
         read |-> {files[i].path : i \in read}]

\* No run of the index command has finished since the tree last changed.
NoRun == [some |-> FALSE]

IndexStart ==
    /\ tree = [p \in Paths |-> Absent]
    /\ disk = None
    /\ run = NoRun

\* A file is created or its content replaced.
WriteFile ==
    /\ \E p \in Paths, c \in Contents :
          /\ tree[p] # c
          /\ tree' = [tree EXCEPT ![p] = c]
    /\ run' = NoRun
    /\ UNCHANGED disk
    /\ UNCHANGED <<budgetVars, renderVars, hybridVars, repoVars, extVars>>

\* A file is deleted.
DeleteFile ==
    /\ \E p \in Paths :
          /\ tree[p] # Absent
          /\ tree' = [tree EXCEPT ![p] = Absent]
    /\ run' = NoRun
    /\ UNCHANGED disk
    /\ UNCHANGED <<budgetVars, renderVars, hybridVars, repoVars, extVars>>

\* `topo index` without --deep: the scan only.
IndexShallow ==
    /\ run' = [some |-> TRUE, deep |-> FALSE, force |-> FALSE,
               files |-> ScanFiles(tree), existing |-> None,
               index |-> None, reindexed |-> 0, read |-> {}, saved |-> FALSE]
    /\ UNCHANGED <<tree, disk>>
    /\ UNCHANGED <<budgetVars, renderVars, hybridVars, repoVars, extVars>>

\* `topo index --deep [--force]`: scan, load the existing index unless
\* forced, build, and save unless the build was incremental and reindexed
\* nothing.  unreadable holds the paths whose read fails during the build:
\* none, or one of the files scanned (deleted or locked since the scan).
IndexDeep ==
    /\ \E force \in BOOLEAN,
          unreadable \in {{}} \cup {{p} : p \in {q \in Paths : tree[q] # Absent}} :
          LET files == ScanFiles(tree)
              existing == IF force THEN None ELSE disk
              built == Build(files, existing, tree, unreadable)
              is_incremental == existing.some
              nothing_changed == is_incremental /\ built.reindexed = 0
          IN  /\ disk' = IF nothing_changed THEN disk ELSE Some(built.index)
              /\ run' = [some |-> TRUE, deep |-> TRUE, force |-> force,
                         files |-> files, existing |-> existing,
                         index |-> Some(built.index), reindexed |-> built.reindexed,
                         read |-> built.read, saved |-> ~nothing_changed]
    /\ UNCHANGED tree
    /\ UNCHANGED <<budgetVars, renderVars, hybridVars, repoVars, extVars>>

(***************************************************************************)
(* The repository fingerprint (topo-scanner fingerprint.rs).  Strings are  *)
(* sequences of characters, compared byte by byte as Rust compares String. *)
(***************************************************************************)

\* The longest file list handed to generate.
MaxListing == 2

\* U+FFFD REPLACEMENT CHARACTER, one element of a string.
REPLACEMENT == "U+FFFD"

\* The ASCII letters, in the order of their codes.
LowerLetters ==
    <<"a", "b", "c", "d", "e", "f", "g", "h", "i", "j", "k", "l", "m",
      "n", "o", "p", "q", "r", "s", "t", "u", "v", "w", "x", "y", "z">>

UpperLetters ==
    <<"A", "B", "C", "D", "E", "F", "G", "H", "I", "J", "K", "L", "M",
      "N", "O", "P", "Q", "R", "S", "T", "U", "V", "W", "X", "Y", "Z">>

\* The first byte (for U+FFFD all three bytes) of the UTF-8 encoding of a
\* character: the key of the byte-lexicographic order of strings.
Code(ch) ==
    CASE ch = "\t" -> 9
      [] ch = "\n" -> 10
      [] ch = " " -> 32
      [] ch = "-" -> 45
      [] ch = "." -> 46
      [] ch = "/" -> 47
      [] ch \in {"0", "1", "2", "3", "4", "5", "6", "7", "8", "9"} ->
            48 + (CHOOSE d \in 0..9 : ToString(d) = ch)
      [] ch = ":" -> 58
      [] ch = "\\" -> 92
      [] ch = "_" -> 95
      [] ch = REPLACEMENT -> 15712189
      [] OTHER ->
            IF \E i \in 1..26 : LowerLetters[i] = ch
            THEN 96 + (CHOOSE i \in 1..26 : LowerLetters[i] = ch)
            ELSE 64 + (CHOOSE i \in 1..26 : UpperLetters[i] = ch)

\* a < b as Rust orders str: at the first position where they differ the
\* byte of a is smaller, or a is a proper prefix of b.
StrLess(a, b) ==
    \E k \in 1..(Len(a) + 1) :
        /\ k <= Len(b)
        /\ \A i \in 1..(k - 1) : a[i] = b[i]
        /\ (k = Len(a) + 1 \/ Code(a[k]) < Code(b[k]))

\* format!("{}", n) of an unsigned number: its decimal digits.
RECURSIVE Decimal(_)
Decimal(n) ==
    IF n < 10 THEN <<ToString(n)>>
    ELSE Decimal(n \div 10) \o <<ToString(n % 10)>>

\* format!("{}:{}", f.path, f.size).
FormatEntry(f) == f.path \o <<":">> \o Decimal(f.size)

\* entries.sort(): each string inserted behind the last one not greater.
InsertString(sorted, x) ==
    LET before == {i \in 1..Len(sorted) : ~StrLess(x, sorted[i])}
        n == IF before = {} THEN 0 ELSE CHOOSE i \in before : \A j \in before : j <= i
    IN  SubSeq(sorted, 1, n) \o <<x>> \o SubSeq(sorted, n + 1, Len(sorted))

RECURSIVE SortStringsFrom(_, _, _)
SortStringsFrom(entries, i, sorted) ==
    IF i > Len(entries) THEN sorted
    ELSE SortStringsFrom(entries, i + 1, InsertString(sorted, entries[i]))

SortStrings(entries) == SortStringsFrom(entries, 1, <<>>)

\* entries.join(sep).
RECURSIVE JoinFrom(_, _, _)
JoinFrom(entries, i, sep) ==
    IF i > Len(entries) THEN <<>>
    ELSE (IF i > 1 THEN sep ELSE <<>>) \o entries[i] \o JoinFrom(entries, i + 1, sep)

Join(entries, sep) == JoinFrom(entries, 1, sep)

\* hash::sha256_bytes: SHA-256 taken as collision-free, so the digest
\* stands for exactly the bytes hashed.
Sha256Bytes(data) == [sha256 |-> data]

\* hex_encode: two lowercase hex digits per byte, one string per digest.
HexEncode(hash) == [hex |-> hash.sha256]

\* A variant of generate that hashes the paths alone.
GeneratePathsOnly(files) ==
    LET entries == [i \in 1..Len(files) |-> files[i].path]
        combined == Join(SortStrings(entries), <<"\n">>)
    IN  HexEncode(Sha256Bytes(combined))

\* A variant of generate that joins the entries in the order given.
GenerateUnsorted(files) ==
    LET entries == [i \in 1..Len(files) |-> FormatEntry(files[i])]
    IN  HexEncode(Sha256Bytes(Join(entries, <<"\n">>)))

\* fingerprint::generate.
Generate(files) ==
    LET entries == [i \in 1..Len(files) |-> FormatEntry(files[i])]
        combined == Join(SortStrings(entries), <<"\n">>)
    IN  HexEncode(Sha256Bytes(combined))

\* The paths and sizes of the listings drawn: a path may hold any character
\* a file name can, a colon and a line feed among them.
FpPaths == {<<"a">>, <<"b">>, <<"a", ":", "1", "\n", "b">>}
FpSizes == {1, 12}

\* make_file(path, size) of the fingerprint tests.
MakeFile(p, s) == [path |-> p, size |-> s]

FpFiles == {MakeFile(p, s) : p \in FpPaths, s \in FpSizes}

Listings == UNION {[1..k -> FpFiles] : k \in 0..MaxListing}

FingerprintStart ==
    /\ gA = <<>>
    /\ gB = <<>>
    /\ gOutA = HexEncode(Sha256Bytes(<<>>))
    /\ gOutB = HexEncode(Sha256Bytes(<<>>))
    /\ gDone = FALSE

\* generate is called on two file lists.
GenerateCall ==
    /\ ~gDone
    /\ \E a \in Listings, b \in Listings :
          /\ gA' = a
          /\ gB' = b
          /\ gOutA' = Generate(a)
          /\ gOutB' = Generate(b)
    /\ gDone' = TRUE
    /\ UNCHANGED <<pipelineVars, scanVars, storeVars, fusionVars, extVars>>

(***************************************************************************)
(* The scanner (topo-scanner scanner.rs) and BundleBuilder (bundle.rs).    *)
(* The tree under the root holds regular files; a file name is a sequence  *)
(* of bytes, and "0xFE" and "0xFF" stand for the bytes of those values,    *)
(* which no valid UTF-8 string contains.                                   *)
(***************************************************************************)

InvalidBytes == {"0xFE", "0xFF"}

\* The file names of the tree.
DiskNames == {<<"a">>, <<"0xFE">>, <<"0xFF">>}

\* The contents a file can hold, one element per byte.
ScanContents == {<<"x">>, <<"y">>, <<"x", "y">>}

\* The steps of the scan of one file that can fail: the walk entry, the
\* metadata read, the content read.
FaultStages == {"walk", "metadata", "read"}

NoFault == [some |-> FALSE]

\* Path::to_string_lossy: every byte that is not valid UTF-8 becomes U+FFFD.
ToStringLossy(name) ==
    [i \in 1..Len(name) |-> IF name[i] \in InvalidBytes THEN REPLACEMENT ELSE name[i]]

\* Language::from_path and FileRole::from_path of a name without extension
\* or directory.
LanguageFromPath(rel_path) == "Other"
RoleFromPath(rel_path) == "Other"

\* The components of a path: the runs of characters between separators.
RECURSIVE ComponentsFrom(_, _, _, _)
ComponentsFrom(path, i, done, current) ==
    IF i > Len(path) THEN (IF current = <<>> THEN done ELSE Append(done, current))
    ELSE IF path[i] = "/"
         THEN ComponentsFrom(path, i + 1,
                  IF current = <<>> THEN done ELSE Append(done, current), <<>>)
         ELSE ComponentsFrom(path, i + 1, done, Append(current, path[i]))

Components(path) == ComponentsFrom(path, 1, <<>>, <<>>)

\* The name of the tool's data directory under the root.
TopoDir == <<".", "t", "o", "p", "o">>

\* A variant that compares the characters of the paths, not their components.
StartsWithText(path, base) ==
    Len(base) <= Len(path) /\ SubSeq(path, 1, Len(base)) = base

\* Path::starts_with: the components of base are the first components of
\* the path.
StartsWith(path, base) ==
    LET p == Components(path)
        b == Components(base)
    IN  Len(b) <= Len(p) /\ SubSeq(p, 1, Len(b)) = b

\* What the walker, the metadata read and the content read give for a name
\* that holds a regular file directly under the root.
WalkEntry(name, tr, flt) ==
    LET failed(stage) == flt.some /\ flt.name = name /\ flt.stage = stage
    IN  [path |-> name,
         entry |-> IF failed("walk") THEN "Err" ELSE "Ok",
         file_type |-> "file",
         metadata |-> IF failed("metadata") THEN "Err" ELSE "Ok",
         is_file |-> TRUE,
         len |-> Len(tr[name]),
         read |-> IF failed("read") THEN "Err" ELSE "Ok",
         contents |-> tr[name]]

\* hash::sha256_file on an entry whose read succeeds.
Sha256File(e) == Sha256Bytes(e.contents)

\* A variant of the loop that stops at the first entry that fails.
RECURSIVE ScanLoopAbort(_, _, _)
ScanLoopAbort(walk, i, files) ==
    IF i > Len(walk) THEN files
    ELSE LET e == walk[i]
         IN  IF e.entry = "Err" THEN files
             ELSE IF e.file_type = "dir" THEN ScanLoopAbort(walk, i + 1, files)
             ELSE IF e.path = <<>> THEN ScanLoopAbort(walk, i + 1, files)
             ELSE IF StartsWith(e.path, TopoDir) THEN ScanLoopAbort(walk, i + 1, files)
             ELSE IF e.metadata = "Err" THEN files
             ELSE IF ~e.is_file THEN ScanLoopAbort(walk, i + 1, files)
             ELSE IF e.read = "Err" THEN files
             ELSE ScanLoopAbort(walk, i + 1,
                      Append(files, [path |-> ToStringLossy(e.path),
                                     size |-> e.len,
                                     language |-> LanguageFromPath(e.path),
                                     role |-> RoleFromPath(e.path),
                                     sha256 |-> Sha256File(e)]))

\* The loop of scan over the walk from entry i on.  The path of an entry
\* is relative to the root, empty for the root itself.  An entry whose walk
\* result, metadata or content read fails is skipped, and so is a directory,
\* the root, an entry under the data directory and an entry whose metadata
\* is not that of a regular file; any other is pushed.
RECURSIVE ScanLoop(_, _, _)
ScanLoop(walk, i, files) ==
    IF i > Len(walk) THEN files
    ELSE LET e == walk[i]
         IN  IF e.entry = "Err" THEN ScanLoop(walk, i + 1, files)
             ELSE IF e.file_type = "dir" THEN ScanLoop(walk, i + 1, files)
             ELSE IF e.path = <<>> THEN ScanLoop(walk, i + 1, files)
             ELSE IF StartsWith(e.path, TopoDir) THEN ScanLoop(walk, i + 1, files)
             ELSE IF e.metadata = "Err" THEN ScanLoop(walk, i + 1, files)
             ELSE IF ~e.is_file THEN ScanLoop(walk, i + 1, files)
             ELSE IF e.read = "Err" THEN ScanLoop(walk, i + 1, files)
             ELSE ScanLoop(walk, i + 1,
                      Append(files, [path |-> ToStringLossy(e.path),
                                     size |-> e.len,
                                     language |-> LanguageFromPath(e.path),
                                     role |-> RoleFromPath(e.path),
                                     sha256 |-> Sha256File(e)]))

\* files.sort_by(|a, b| a.path.cmp(&b.path)): a stable sort, each file
\* inserted behind the last one whose path is not greater.
InsertByPath(sorted, f) ==
    LET before == {i \in 1..Len(sorted) : ~StrLess(f.path, sorted[i].path)}
        n == IF before = {} THEN 0 ELSE CHOOSE i \in before : \A j \in before : j <= i
    IN  SubSeq(sorted, 1, n) \o <<f>> \o SubSeq(sorted, n + 1, Len(sorted))

RECURSIVE SortByPathFrom(_, _, _)
SortByPathFrom(files, i, sorted) ==
    IF i > Len(files) THEN sorted
    ELSE SortByPathFrom(files, i + 1, InsertByPath(sorted, files[i]))

\* A variant that returns the error of the root to the caller.
ScanPropagatesRoot(walk) ==
    IF \E i \in 1..Len(walk) : walk[i].entry = "Err" /\ walk[i].path = <<>>
    THEN [ok |-> FALSE, files |-> <<>>]
    ELSE [ok |-> TRUE, files |-> SortByPathFrom(ScanLoop(walk, 1, <<>>), 1, <<>>)]

\* Scanner::scan over the entries the walker yields, in the walker's order.
Scan(walk) ==
    [ok |-> TRUE, files |-> SortByPathFrom(ScanLoop(walk, 1, <<>>), 1, <<>>)]

\* BundleBuilder::build: the scan and the fingerprint of its files.
BundleBuild(walk) ==
    LET scanned == Scan(walk)
    IN  [ok |-> scanned.ok,
         fingerprint |-> Generate(scanned.files),
         files |-> scanned.files]

\* The names of the tree that hold a file.
Present(tr) == {n \in DiskNames : tr[n] # <<>>}

\* The orders in which the walker can yield the files of the tree.
WalkOrders(tr) ==
    {w \in [1..Cardinality(Present(tr)) -> Present(tr)] :
        \A i, j \in 1..Cardinality(Present(tr)) : w[i] = w[j] => i = j}

NoScan == [some |-> FALSE]

ScanStart ==
    /\ fs = [n \in DiskNames |-> <<>>]
    /\ fault = NoFault
    /\ sPrev = NoScan
    /\ sLast = NoScan

\* The tree may change before the first scan and once after a scan; the
\* next scan then gives the bundle to compare with the one before.
MayMutate == sLast.some \/ ~sPrev.some

AfterMutation ==
    /\ sPrev' = sLast
    /\ sLast' = NoScan

\* A file is created or its content replaced.
ScanWriteFile ==
    /\ MayMutate
    /\ \E n \in DiskNames, c \in ScanContents :
          /\ fs[n] # c
          /\ fs' = [fs EXCEPT ![n] = c]
    /\ AfterMutation
    /\ UNCHANGED fault
    /\ UNCHANGED <<pipelineVars, fpVars, storeVars, fusionVars, extVars>>

\* A file is deleted.
ScanDeleteFile ==
    /\ MayMutate
    /\ \E n \in Present(fs) :
          /\ fs' = [fs EXCEPT ![n] = <<>>]
          /\ fault' = IF fault.some /\ fault.name = n THEN NoFault ELSE fault
    /\ AfterMutation
    /\ UNCHANGED <<pipelineVars, fpVars, storeVars, fusionVars, extVars>>

\* The permissions change: one file becomes unreadable at one step of the
\* scan, or every file is readable again.
SetFault ==
    /\ MayMutate
    /\ \E f \in {NoFault} \cup
                {[some |-> TRUE, name |-> n, stage |-> s] : n \in Present(fs), s \in FaultStages} :
          /\ f # fault
          /\ fault' = f
    /\ AfterMutation
    /\ UNCHANGED fs
    /\ UNCHANGED <<pipelineVars, fpVars, storeVars, fusionVars, extVars>>

\* BundleBuilder::new(root).build(), the walker yielding the files in any
\* order.
ScanTree ==
    /\ \E w \in WalkOrders(fs) :
          LET walk == [i \in 1..Len(w) |-> WalkEntry(w[i], fs, fault)]
          IN  sLast' = [some |-> TRUE, bundle |-> BundleBuild(walk),
                        tree |-> fs, fault |-> fault]
    /\ sPrev' = IF sLast.some THEN sLast ELSE sPrev
    /\ UNCHANGED <<fs, fault>>
    /\ UNCHANGED <<pipelineVars, fpVars, storeVars, fusionVars, extVars>>

(***************************************************************************)
(* The scanner over a tree that holds more than regular files: the data    *)
(* directory, dotfiles, a directory, a FIFO and a symbolic link.           *)
(***************************************************************************)

\* The most entries the tree under the root holds at once.
MaxEntries == 4

FileA == <<"a">>
DotFile == <<".", "b">>
TopoFile == TopoDir \o <<"/", "a">>
Topology == TopoDir \o <<"l", "o", "g", "y">>
LinkL == <<"l">>
DirD == <<"d">>

\* The paths of the tree, relative to the root.
WalkNames == {FileA, DotFile, TopoDir, TopoFile, Topology, LinkL, DirD}

NoNode == [kind |-> "none", contents |-> <<>>, target |-> <<>>]
RegularFile(c) == [kind |-> "file", contents |-> c, target |-> <<>>]
Directory == [kind |-> "dir", contents |-> <<>>, target |-> <<>>]
Fifo == [kind |-> "fifo", contents |-> <<>>, target |-> <<>>]
Symlink(t) == [kind |-> "symlink", contents |-> <<>>, target |-> t]

\* The nodes a path of the tree can hold.
NodesAt(n) ==
    {NoNode} \cup
    CASE n = FileA -> {RegularFile(<<"x">>), RegularFile(<<"x", "y">>)}
      [] n = DotFile -> {RegularFile(<<"x">>)}
      [] n = TopoDir -> {Directory, RegularFile(<<"x">>)}
      [] n = TopoFile -> {RegularFile(<<"x">>)}
      [] n = Topology -> {RegularFile(<<"x">>)}
      [] n = LinkL -> {Symlink(FileA), Symlink(DirD)}
      [] n = DirD -> {Directory, Fifo}

WalkPresent(tr) == {n \in WalkNames : tr[n].kind # "none"}

\* A file under the data directory exists only while the directory does.
WellFormed(tr) ==
    /\ Cardinality(WalkPresent(tr)) <= MaxEntries
    /\ tr[TopoFile].kind # "none" => tr[TopoDir].kind = "dir"

\* The entry of the root itself: a directory of empty relative path.
RootEntry ==
    [path |-> <<>>, entry |-> "Ok", file_type |-> "dir", metadata |-> "Ok",
     is_file |-> FALSE, len |-> 0, read |-> "Ok", contents |-> <<>>]

\* The entry the walker yields in place of one it cannot read.
ErrEntry ==
    [path |-> <<>>, entry |-> "Err", file_type |-> "other", metadata |-> "Err",
     is_file |-> FALSE, len |-> 0, read |-> "Err", contents |-> <<>>]

\* The entry of a path of the tree.  The walker does not follow links, so
\* file_type is the type of the entry itself; entry.path().metadata() and
\* the content read follow a link to what it points to.
DirEntry(n, tr) ==
    LET node == tr[n]
        seen == IF node.kind = "symlink" THEN tr[node.target] ELSE node
    IN  [path |-> n,
         entry |-> "Ok",
         file_type |-> CASE node.kind = "file" -> "file"
                         [] node.kind = "dir" -> "dir"
                         [] node.kind = "symlink" -> "symlink"
                         [] OTHER -> "other",
         metadata |-> IF seen.kind = "none" THEN "Err" ELSE "Ok",
         is_file |-> seen.kind = "file",
         len |-> Len(seen.contents),
         read |-> IF seen.kind = "file" THEN "Ok" ELSE "Err",
         contents |-> seen.contents]

\* The paths the walker yields: those present that no ignore rule excludes;
\* nothing under an excluded directory is reached.
Walked(tr, ignored) ==
    {n \in (WalkPresent(tr) \ ignored) : (n = TopoFile => TopoDir \notin ignored)}

\* WalkBuilder::new(root).hidden(false)...build(): for a root that cannot be
\* read an error, with or without the entry of the root before it; else the
\* root, then the paths in any order that has a directory before what it holds.
Walks(tr, root_ok, ignored) ==
    IF ~root_ok THEN {<<ErrEntry>>, <<RootEntry, ErrEntry>>}
    ELSE LET names == Walked(tr, ignored)
             orders == {w \in [1..Cardinality(names) -> names] :
                          /\ \A i, j \in DOMAIN w : w[i] = w[j] => i = j
                          /\ \A i, j \in DOMAIN w :
                                (w[i] = TopoDir /\ w[j] = TopoFile) => i < j}
         IN  {<<RootEntry>> \o [i \in DOMAIN w |-> DirEntry(w[i], tr)] : w \in orders}

\* The ignore files: no rule, or a rule that excludes one path.
IgnoreRules == {{}} \cup {{n} : n \in WalkNames}

NotScanned == [some |-> FALSE]

WalkStart ==
    /\ wTree = [n \in WalkNames |-> NoNode]
    /\ wRoot = TRUE
    /\ wOut = NotScanned

\* An entry is created, replaced or removed under the root.
SetNode ==
    /\ \E n \in WalkNames : \E v \in NodesAt(n) :
          /\ v # wTree[n]
          /\ WellFormed([wTree EXCEPT ![n] = v])
          /\ wTree' = [wTree EXCEPT ![n] = v]
    /\ wOut' = NotScanned
    /\ UNCHANGED wRoot
    /\ UNCHANGED <<pipelineVars, repoVars, roleVars, tokVars, bm25fVars, heurVars>>

\* The root becomes unreadable, or readable again.
SetRoot ==
    /\ wRoot' = ~wRoot
    /\ wOut' = NotScanned
    /\ UNCHANGED wTree
    /\ UNCHANGED <<pipelineVars, repoVars, roleVars, tokVars, bm25fVars, heurVars>>

\* Scanner::new(root).scan().
ScanRoot ==
    /\ ~wOut.some
    /\ \E ignored \in IgnoreRules :
          \E walk \in Walks(wTree, wRoot, ignored) :
              wOut' = [some |-> TRUE, ignored |-> ignored, result |-> Scan(walk)]
    /\ UNCHANGED <<wTree, wRoot>>
    /\ UNCHANGED <<pipelineVars, repoVars, roleVars, tokVars, bm25fVars, heurVars>>

(***************************************************************************)
(* FileRole::from_path (topo-core).  A path is the sequence of its         *)
(* directory names and the pieces of its file name; a piece is a dot or a  *)
(* run of characters cut where the rules look: "handler_test.go" is the    *)
(* pieces "handler", "_test", ".", "go".                                   *)
(***************************************************************************)

\* The longest chain of directories of a classified path.
MaxDirs == 2

RolePath(dirs, name) == [dirs |-> dirs, name |-> name]

\* Path::extension: what follows the last dot of the file name, none for a
\* name without a dot or with its only dot in front.
Extension(name) ==
    LET dots == {i \in 2..(Len(name) - 1) : name[i] = "."}
    IN  IF dots = {} THEN <<>>
        ELSE SubSeq(name, (CHOOSE i \in dots : \A j \in dots : j <= i) + 1, Len(name))

HasDir(path, names) == \E i \in 1..Len(path.dirs) : path.dirs[i] \in names

\* The file name holds ".m." for an m of the markers, after a first piece.
HasInfix(name, markers) ==
    \E i \in 2..(Len(name) - 2) :
        name[i] = "." /\ name[i + 1] \in markers /\ name[i + 2] = "."

IsGenerated(path) ==
    \/ HasDir(path, {"vendor", "node_modules", "third_party"})
    \/ HasInfix(path.name, {"pb", "generated"})

IsTest(path) ==
    \/ HasDir(path, {"tests", "test", "spec", "e2e", "__tests__"})
    \/ \E i \in 2..(Len(path.name) - 1) :
          path.name[i] \in {"_test", "_spec"} /\ path.name[i + 1] = "."
    \/ HasInfix(path.name, {"test", "spec"})
    \/ (Len(path.name) > 0 /\ path.name[1] = "test_")

IsBuild(path) ==
    \/ path.name \in {<<"Makefile">>, <<"Dockerfile">>, <<"Cargo", ".", "toml">>,
                      <<"go", ".", "mod">>, <<"package", ".", "json">>,
                      <<"CMakeLists", ".", "txt">>}
    \/ Extension(path.name) = <<"mk">>

IsConfig(path) ==
    \/ Extension(path.name) \in {<<"yaml">>, <<"yml">>, <<"toml">>, <<"ini">>}
    \/ /\ Len(path.name) >= 2
       /\ path.name[1] = "."
       /\ path.name[2] \in {"env", "gitignore"}

IsDocumentation(path) ==
    \/ Extension(path.name) \in {<<"md">>, <<"rst">>, <<"txt">>}
    \/ HasDir(path, {"docs", "doc"})

IsImplementation(path) ==
    Extension(path.name) \in {<<"rs">>, <<"go">>, <<"py">>, <<"js">>, <<"ts">>, <<"html">>}

\* A variant that tests the rule of test files before that of generated ones.
FromPathTestFirst(path) ==
    IF IsTest(path) THEN "Test"
    ELSE IF IsGenerated(path) THEN "Generated"
    ELSE IF IsBuild(path) THEN "Build"
    ELSE IF IsConfig(path) THEN "Config"
    ELSE IF IsDocumentation(path) THEN "Documentation"
    ELSE IF IsImplementation(path) THEN "Implementation"
    ELSE "Other"

\* FileRole::from_path: the first rule that matches.
FromPath(path) ==
    IF IsGenerated(path) THEN "Generated"
    ELSE IF IsTest(path) THEN "Test"
    ELSE IF IsBuild(path) THEN "Build"
    ELSE IF IsConfig(path) THEN "Config"
    ELSE IF IsDocumentation(path) THEN "Documentation"
    ELSE IF IsImplementation(path) THEN "Implementation"
    ELSE "Other"

\* The directory names and file names of the core crate's tests.
RoleDirNames == {"vendor", "tests", "docs", "src", "pkg"}

RoleFileNames ==
    {<<"handler", "_test", ".", "go">>, <<"parser", "_spec", ".", "rs">>,
     <<"test_", "utils", ".", "py">>, <<"App", ".", "test", ".", "js">>,
     <<"service", ".", "pb", ".", "go">>, <<"schema", ".", "generated", ".", "ts">>,
     <<"Makefile">>, <<"Dockerfile">>, <<"Cargo", ".", "toml">>,
     <<"settings", ".", "yaml">>, <<".", "env", ".", "production">>,
     <<".", "gitignore">>, <<"README", ".", "md">>, <<"architecture", ".", "rs">>,
     <<"main", ".", "rs">>, <<"index", ".", "html">>, <<"blob", ".", "xyz">>}

RolePaths ==
    {RolePath(d, n) :
        d \in UNION {[1..k -> RoleDirNames] : k \in 0..MaxDirs}, n \in RoleFileNames}

NotClassified == "none"

RoleStart ==
    /\ cPath = RolePath(<<>>, <<>>)
    /\ cRole = NotClassified

\* FileRole::from_path(path).
Classify ==
    /\ cRole = NotClassified
    /\ \E p \in RolePaths :
          /\ cPath' = p
          /\ cRole' = FromPath(p)
    /\ UNCHANGED <<pipelineVars, repoVars, walkVars, tokVars, bm25fVars, heurVars>>

(***************************************************************************)
(* Tokenizer (atlas-score tokenizer.rs).  A text is a sequence of          *)
(* characters, all of them ASCII, so that a byte is a character.           *)
(***************************************************************************)

\* The longest text drawn character by character.
MaxText == 4

IsAsciiLowercase(ch) == \E i \in 1..26 : LowerLetters[i] = ch
IsAsciiUppercase(ch) == \E i \in 1..26 : UpperLetters[i] = ch

\* A variant of the list with "as" and "at" exchanged.
StopWordsUnsorted ==
    <<<<"a">>, <<"a", "n">>, <<"a", "n", "d">>, <<"a", "r", "e">>,
      <<"a", "t">>, <<"a", "s">>, <<"b", "e">>, <<"b", "u", "t">>,
      <<"b", "y">>, <<"d", "o">>, <<"f", "o", "r">>,
      <<"f", "r", "o", "m">>, <<"h", "a", "d">>, <<"h", "a", "s">>,
      <<"h", "a", "v", "e">>, <<"h", "e">>, <<"h", "e", "r">>,
      <<"h", "i", "s">>, <<"h", "o", "w">>, <<"i">>, <<"i", "f">>,
      <<"i", "n">>, <<"i", "n", "t", "o">>, <<"i", "s">>, <<"i", "t">>,
      <<"i", "t", "s">>, <<"j", "u", "s", "t">>, <<"m", "e">>,
      <<"m", "y">>, <<"n", "o">>, <<"n", "o", "t">>, <<"o", "f">>,
      <<"o", "n">>, <<"o", "r">>, <<"o", "u", "r">>, <<"o", "u", "t">>,
      <<"s", "o">>, <<"t", "h", "a", "n">>, <<"t", "h", "a", "t">>,
      <<"t", "h", "e">>, <<"t", "h", "e", "i", "r">>,
      <<"t", "h", "e", "m">>, <<"t", "h", "e", "n">>,
      <<"t", "h", "e", "r", "e">>, <<"t", "h", "e", "s", "e">>,
      <<"t", "h", "e", "y">>, <<"t", "h", "i", "s">>, <<"t", "o">>,
      <<"u", "p">>, <<"u", "s">>, <<"w", "a", "s">>, <<"w", "e">>,
      <<"w", "e", "r", "e">>, <<"w", "h", "a", "t">>,
      <<"w", "h", "e", "n">>, <<"w", "h", "i", "c", "h">>,
      <<"w", "h", "o">>, <<"w", "i", "l", "l">>, <<"w", "i", "t", "h">>,
      <<"w", "o", "u", "l", "d">>, <<"y", "o", "u">>,
      <<"y", "o", "u", "r">>>>

STOP_WORDS ==
    <<<<"a">>, <<"a", "n">>, <<"a", "n", "d">>, <<"a", "r", "e">>,
      <<"a", "s">>, <<"a", "t">>, <<"b", "e">>, <<"b", "u", "t">>,
      <<"b", "y">>, <<"d", "o">>, <<"f", "o", "r">>,
      <<"f", "r", "o", "m">>, <<"h", "a", "d">>, <<"h", "a", "s">>,
      <<"h", "a", "v", "e">>, <<"h", "e">>, <<"h", "e", "r">>,
      <<"h", "i", "s">>, <<"h", "o", "w">>, <<"i">>, <<"i", "f">>,
      <<"i", "n">>, <<"i", "n", "t", "o">>, <<"i", "s">>, <<"i", "t">>,
      <<"i", "t", "s">>, <<"j", "u", "s", "t">>, <<"m", "e">>,
      <<"m", "y">>, <<"n", "o">>, <<"n", "o", "t">>, <<"o", "f">>,
      <<"o", "n">>, <<"o", "r">>, <<"o", "u", "r">>, <<"o", "u", "t">>,
      <<"s", "o">>, <<"t", "h", "a", "n">>, <<"t", "h", "a", "t">>,
      <<"t", "h", "e">>, <<"t", "h", "e", "i", "r">>,
      <<"t", "h", "e", "m">>, <<"t", "h", "e", "n">>,
      <<"t", "h", "e", "r", "e">>, <<"t", "h", "e", "s", "e">>,
      <<"t", "h", "e", "y">>, <<"t", "h", "i", "s">>, <<"t", "o">>,
      <<"u", "p">>, <<"u", "s">>, <<"w", "a", "s">>, <<"w", "e">>,
      <<"w", "e", "r", "e">>, <<"w", "h", "a", "t">>,
      <<"w", "h", "e", "n">>, <<"w", "h", "i", "c", "h">>,
      <<"w", "h", "o">>, <<"w", "i", "l", "l">>, <<"w", "i", "t", "h">>,
      <<"w", "o", "u", "l", "d">>, <<"y", "o", "u">>,
      <<"y", "o", "u", "r">>>>

\* A variant that leaves whitespace out.
SeparatorsNoSpace == {"/", ".", "-"}

\* The characters the first split cuts at: whitespace, '/', '.', '-'.
Separators == {" ", "\t", "\n", "/", ".", "-"}

\* str::split: the pieces between the separators, empty ones included.
RECURSIVE SplitFrom(_, _, _, _, _)
SplitFrom(s, seps, i, done, current) ==
    IF i > Len(s) THEN Append(done, current)
    ELSE IF s[i] \in seps THEN SplitFrom(s, seps, i + 1, Append(done, current), <<>>)
    ELSE SplitFrom(s, seps, i + 1, done, Append(current, s[i]))

Split(s, seps) == SplitFrom(s, seps, 1, <<>>, <<>>)

\* The loop of split_camel_case at the character i (counted from 1), the
\* current part beginning at start.
RECURSIVE CamelLoop(_, _, _, _)
CamelLoop(s, i, start, parts) ==
    IF i > Len(s)
    THEN (IF start <= Len(s) THEN Append(parts, SubSeq(s, start, Len(s))) ELSE parts)
    ELSE LET prev_upper == IsAsciiUppercase(s[i - 1])
             curr_upper == IsAsciiUppercase(s[i])
             curr_lower == IsAsciiLowercase(s[i])
             split_camel == ~prev_upper /\ curr_upper
             split_acronym ==
                 prev_upper /\ curr_lower /\ i >= 3 /\ IsAsciiUppercase(s[i - 2])
         IN  IF split_camel
             THEN CamelLoop(s, i + 1, i,
                      IF start < i THEN Append(parts, SubSeq(s, start, i - 1)) ELSE parts)
             ELSE IF split_acronym
             THEN CamelLoop(s, i + 1, i - 1,
                      IF start < i - 1 THEN Append(parts, SubSeq(s, start, i - 2))
                      ELSE parts)
             ELSE CamelLoop(s, i + 1, start, parts)

SplitCamelCase(s) == CamelLoop(s, 2, 1, <<>>)

\* str::to_lowercase on ASCII text.
ToLowercase(s) ==
    [i \in 1..Len(s) |->
        IF IsAsciiUppercase(s[i])
        THEN LowerLetters[CHOOSE k \in 1..26 : UpperLetters[k] = s[i]]
        ELSE s[i]]

\* slice::binary_search over the words of the list from lo up to hi.
RECURSIVE BinarySearch(_, _, _, _)
BinarySearch(list, word, lo, hi) ==
    IF lo >= hi THEN FALSE
    ELSE LET mid == lo + ((hi - lo) \div 2)
         IN  IF list[mid] = word THEN TRUE
             ELSE IF StrLess(list[mid], word) THEN BinarySearch(list, word, mid + 1, hi)
             ELSE BinarySearch(list, word, lo, mid)

IsStopWord(word) == BinarySearch(STOP_WORDS, word, 1, Len(STOP_WORDS) + 1)

\* The sub-tokens of the parts of a word from part j on, empty parts skipped.
RECURSIVE PartLoop(_, _, _)
PartLoop(parts, j, pieces) ==
    IF j > Len(parts) THEN pieces
    ELSE IF parts[j] = <<>> THEN PartLoop(parts, j + 1, pieces)
    ELSE PartLoop(parts, j + 1, pieces \o SplitCamelCase(parts[j]))

\* The sub-tokens of the words from word i on, empty words skipped.
RECURSIVE WordLoop(_, _, _)
WordLoop(words, i, pieces) ==
    IF i > Len(words) THEN pieces
    ELSE IF words[i] = <<>> THEN WordLoop(words, i + 1, pieces)
    ELSE WordLoop(words, i + 1, PartLoop(Split(words[i], {"_"}), 1, pieces))

\* The sub-tokens tokenize meets, in the order in which it meets them.
Pieces(input) == WordLoop(Split(input, Separators), 1, <<>>)

\* The tokens pushed for the sub-tokens from k on: each lowercased, kept
\* when it has two bytes or more and is no stop word.
RECURSIVE PushLoop(_, _, _)
PushLoop(sub_tokens, k, tokens) ==
    IF k > Len(sub_tokens) THEN tokens
    ELSE LET lower == ToLowercase(sub_tokens[k])
         IN  PushLoop(sub_tokens, k + 1,
                 IF Len(lower) >= 2 /\ ~IsStopWord(lower) THEN Append(tokens, lower)
                 ELSE tokens)

\* Tokenizer::tokenize.
Tokenize(input) == PushLoop(Pieces(input), 1, <<>>)

\* tokens.join(" ").
RECURSIVE JoinTokens(_)
JoinTokens(tokens) ==
    IF tokens = <<>> THEN <<>>
    ELSE IF Len(tokens) = 1 THEN tokens[1]
    ELSE tokens[1] \o <<" ">> \o JoinTokens(Tail(tokens))

\* The characters of the texts drawn character by character.
TextChars == {"a", "s", "A", "S", "2", " ", "_"}

ShortTexts == UNION {[1..n -> TextChars] : n \in 0..MaxText}

ExampleTexts ==
    {<<"p", "a", "r", "s", "e", "H", "T", "T", "P", "R", "e", "s", "p", "o", "n", "s", "e">>,
     <<"F", "i", "l", "e", "I", "n", "f", "o">>,
     <<"i", "n", "s", "e", "r", "t", "B", "r", "e", "a", "k">>,
     <<"s", "r", "c", "/", "a", "u", "t", "h", "-", "h", "a", "n", "d", "l", "e", "r", ".", "r", "s">>,
     <<"t", "h", "e", " ", "q", "u", "i", "c", "k", "_", "f", "o", "x">>,
     <<"v", "2", "A", "p", "i">>,
     <<"a", "u", "t", "h", "_", "t", "h", "e", " ", "A", "u", "t", "h">>}

Texts == ShortTexts \cup ExampleTexts

TokenizerStart ==
    /\ tIn = <<>>
    /\ tPieces = <<>>
    /\ tOut = <<>>
    /\ tAgain = <<>>
    /\ tDone = FALSE

\* Tokenizer::tokenize(input), then tokenize of its tokens joined by spaces.
TokenizeCall ==
    /\ ~tDone
    /\ \E input \in Texts :
          LET tokens == Tokenize(input)
          IN  /\ tIn' = input
              /\ tPieces' = Pieces(input)
              /\ tOut' = tokens
              /\ tAgain' = Tokenize(JoinTokens(tokens))
    /\ tDone' = TRUE
    /\ UNCHANGED <<pipelineVars, repoVars, walkVars, roleVars, bm25fVars, heurVars>>

(***************************************************************************)
(* Bm25fScorer (topo-score bm25f.rs).  A score is held as the list of the  *)
(* terms added to 0.0: the empty list is the value 0.0, and every term      *)
(* added is the product of a positive weighted term frequency.             *)
(***************************************************************************)

\* The most paths of a corpus.
MaxCorpus == 2

W_FILENAME == 5
W_SYMBOLS == 3
W_BODY == 1

\* The paths of the corpora and of the documents scored.
BmPaths ==
    {<<"s", "r", "c", "/", "a", "u", "t", "h", ".", "r", "s">>,
     <<"s", "r", "c", "/", "d", "b", ".", "r", "s">>,
     <<"a", "u", "t", "h", "_", "t", "e", "s", "t", ".", "r", "s">>,
     <<"R", "E", "A", "D", "M", "E", ".", "m", "d">>}

BmQueries ==
    {<<>>, <<"t", "h", "e">>, <<"a">>, <<"a", "u", "t", "h">>,
     <<"z", "e", "b", "r", "a">>, <<"d", "b", " ", "a", "u", "t", "h">>}

\* The loop of CorpusStats::from_paths from path i on.
RECURSIVE FromPathsLoop(_, _, _, _)
FromPathsLoop(paths, i, total_length, doc_frequencies) ==
    IF i > Len(paths)
    THEN [total_length |-> total_length, doc_frequencies |-> doc_frequencies]
    ELSE LET tokens == Tokenize(paths[i])
             unique == TokenSet(tokens)
             df == [t \in (DOMAIN doc_frequencies) \cup unique |->
                       (IF t \in DOMAIN doc_frequencies THEN doc_frequencies[t] ELSE 0)
                       + (IF t \in unique THEN 1 ELSE 0)]
         IN  FromPathsLoop(paths, i + 1, total_length + Len(tokens), df)

\* CorpusStats::from_paths.
FromPaths(paths) ==
    LET r == FromPathsLoop(paths, 1, 0, <<>>)
    IN  [total_docs |-> Len(paths),
         avg_doc_length |-> IF Len(paths) = 0 THEN Frac(1, 1)
                            ELSE Frac(r.total_length, Len(paths)),
         doc_frequencies |-> r.doc_frequencies]

\* Bm25fScorer::new.
NewBm25fScorer(query, stats) == [query_tokens |-> Tokenize(query), stats |-> stats]

\* The loop of score over the query tokens from token i on: a term is added
\* for a token whose weighted term frequency in the document is positive.
RECURSIVE ScoreLoop(_, _, _, _, _)
ScoreLoop(self, term_freqs, doc_length, i, score) ==
    IF i > Len(self.query_tokens) THEN score
    ELSE LET token == self.query_tokens[i]
             df == IF token \in DOMAIN self.stats.doc_frequencies
                   THEN self.stats.doc_frequencies[token] ELSE 0
             tf == IF token \in DOMAIN term_freqs
                   THEN W_FILENAME * term_freqs[token].filename
                           + W_SYMBOLS * term_freqs[token].symbols
                           + W_BODY * term_freqs[token].body
                   ELSE 0
         IN  ScoreLoop(self, term_freqs, doc_length, i + 1,
                 IF tf > 0
                 THEN Append(score, [n |-> self.stats.total_docs, df |-> df, tf |-> tf,
                                     dl |-> doc_length,
                                     avgdl |-> self.stats.avg_doc_length])
                 ELSE score)

\* A variant without the early return.
Bm25fScoreAlways(self, term_freqs, doc_length) ==
    ScoreLoop(self, term_freqs, doc_length, 1, <<>>)

\* Bm25fScorer::score.
Bm25fScore(self, term_freqs, doc_length) ==
    IF self.query_tokens = <<>> \/ self.stats.total_docs = 0 THEN <<>>
    ELSE ScoreLoop(self, term_freqs, doc_length, 1, <<>>)

\* The term frequencies score_path builds: every token of the path counted
\* in the filename field.
PathTermFreqs(tokens) ==
    [t \in TokenSet(tokens) |-> TermFreqs(CountIn(tokens, t), 0, 0)]

\* Bm25fScorer::score_path.
ScorePath(self, path) ==
    LET tokens == Tokenize(path)
    IN  Bm25fScore(self, PathTermFreqs(tokens), Len(tokens))

Corpora == UNION {[1..n -> BmPaths] : n \in 0..MaxCorpus}

\* The documents handed to score: those of the paths, and documents that
\* hold a term in the symbols or the body field only.
BmDocuments ==
    {[term_freqs |-> PathTermFreqs(Tokenize(p)), doc_length |-> Len(Tokenize(p))] :
        p \in BmPaths}
      \cup {[term_freqs |-> [t \in {<<"a", "u", "t", "h">>} |-> TermFreqs(0, s, b)],
             doc_length |-> s + b] : s \in 0..1, b \in 0..1}
      \cup {[term_freqs |-> <<>>, doc_length |-> 0]}

NoScorer == [some |-> FALSE]

Bm25fStart ==
    /\ mScorer = NoScorer
    /\ mDoc = <<>>
    /\ mScore = <<>>
    /\ mCalled = "none"

\* Bm25fScorer::new(query, CorpusStats::from_paths(paths)).
NewScorer ==
    /\ ~mScorer.some
    /\ \E query \in BmQueries, paths \in Corpora :
          mScorer' = [some |-> TRUE, query |-> query, corpus |-> paths,
                      v |-> NewBm25fScorer(query, FromPaths(paths))]
    /\ UNCHANGED <<mDoc, mScore, mCalled>>
    /\ UNCHANGED <<pipelineVars, repoVars, walkVars, roleVars, tokVars, heurVars>>

\* scorer.score(term_freqs, doc_length).
ScoreCall ==
    /\ mScorer.some /\ mCalled = "none"
    /\ \E doc \in BmDocuments :
          /\ mDoc' = doc
          /\ mScore' = Bm25fScore(mScorer.v, doc.term_freqs, doc.doc_length)
    /\ mCalled' = "score"
    /\ UNCHANGED mScorer
    /\ UNCHANGED <<pipelineVars, repoVars, walkVars, roleVars, tokVars, heurVars>>

\* scorer.score_path(path).
ScorePathCall ==
    /\ mScorer.some /\ mCalled = "none"
    /\ \E path \in BmPaths :
          /\ mDoc' = [term_freqs |-> PathTermFreqs(Tokenize(path)),
                      doc_length |-> Len(Tokenize(path))]
          /\ mScore' = ScorePath(mScorer.v, path)
    /\ mCalled' = "score_path"
    /\ UNCHANGED mScorer
    /\ UNCHANGED <<pipelineVars, repoVars, walkVars, roleVars, tokVars, heurVars>>

(***************************************************************************)
(* HeuristicScorer (atlas-score heuristic.rs).  The score is a float in    *)
(* the code and an exact fraction here, over the denominator 10000 times   *)
(* the number of query tokens.                                             *)
(***************************************************************************)

\* The most directories of a scored path.
MaxDepth == 2

\* HeuristicScorer::new.
NewHeuristicScorer(query) == [query_tokens |-> Tokenize(query)]

\* keyword_score: the query tokens found among the tokens of the path, and
\* the number of query tokens they are a fraction of; 0 for no query token.
KeywordScore(self, path) ==
    IF self.query_tokens = <<>> THEN Frac(0, 1)
    ELSE LET path_tokens == Tokenize(path)
             matches == Cardinality({i \in 1..Len(self.query_tokens) :
                            \E j \in 1..Len(path_tokens) :
                                path_tokens[j] = self.query_tokens[i]})
         IN  Frac(matches, Len(self.query_tokens))

\* role_score, in hundredths.
RoleScore(role) ==
    CASE role = "Implementation" -> 100
      [] role = "Build" -> 60
      [] role = "Test" -> 50
      [] role = "Config" -> 30
      [] role = "Documentation" -> 20
      [] role = "Other" -> 10
      [] role = "Generated" -> 5

\* depth_score, in hundredths, by the number of '/' and '\' of the path.
DepthScore(path) ==
    LET depth == Cardinality({i \in 1..Len(path) : path[i] \in {"/", "\\"}})
    IN  CASE depth = 0 -> 100
          [] depth = 1 -> 90
          [] depth = 2 -> 70
          [] depth = 3 -> 50
          [] depth = 4 -> 30
          [] OTHER -> 10

\* wellknown_score, in hundredths, by what precedes the first '/' or '\'.
WellknownScore(path) ==
    LET first_component == Split(path, {"/", "\\"})[1]
    IN  CASE first_component \in
               {<<"s", "r", "c">>, <<"l", "i", "b">>, <<"c", "m", "d">>, <<"p", "k", "g">>,
                <<"a", "p", "p">>, <<"i", "n", "t", "e", "r", "n", "a", "l">>,
                <<"c", "r", "a", "t", "e", "s">>} -> 100
          [] first_component \in
               {<<"b", "i", "n">>, <<"s", "e", "r", "v", "e", "r">>, <<"a", "p", "i">>,
                <<"c", "o", "r", "e">>, <<"m", "o", "d", "u", "l", "e", "s">>} -> 80
          [] first_component \in
               {<<"t", "e", "s", "t">>, <<"t", "e", "s", "t", "s">>, <<"s", "p", "e", "c">>,
                <<"e", "2", "e">>} -> 50
          [] first_component \in
               {<<"d", "o", "c", "s">>, <<"d", "o", "c">>,
                <<"e", "x", "a", "m", "p", "l", "e", "s">>,
                <<"s", "c", "r", "i", "p", "t", "s">>} -> 30
          [] first_component \in
               {<<"v", "e", "n", "d", "o", "r">>,
                <<"n", "o", "d", "e", "_", "m", "o", "d", "u", "l", "e", "s">>,
                <<"t", "h", "i", "r", "d", "_", "p", "a", "r", "t", "y">>} -> 0
          [] OTHER -> 40

\* size_score, in hundredths.
SizeScore(size) ==
    IF size <= 1000 THEN 90
    ELSE IF size <= 5000 THEN 100
    ELSE IF size <= 20000 THEN 80
    ELSE IF size <= 100000 THEN 50
    ELSE IF size <= 500000 THEN 20
    ELSE 5

\* HeuristicScorer::score: the weighted sum of the five signals, clamped
\* to [0, 1].
HeuristicScore(self, path, role, size) ==
    LET keyword == KeywordScore(self, path)
        den == 10000 * keyword.den
        sum == 4000 * keyword.num
                 + keyword.den * (RoleScore(role) * 25 + DepthScore(path) * 15
                                    + WellknownScore(path) * 10 + SizeScore(size) * 10)
    IN  Frac(IF sum < 0 THEN 0 ELSE IF sum > den THEN den ELSE sum, den)

\* The names of a path, joined by a separator.
RECURSIVE JoinPath(_, _)
JoinPath(names, sep) ==
    IF Len(names) = 1 THEN names[1]
    ELSE names[1] \o <<sep>> \o JoinPath(Tail(names), sep)

HeurDirs == {<<"s", "r", "c">>, <<"a", "u", "t", "h">>, <<"v", "e", "n", "d", "o", "r">>}

HeurFile == <<"h", "a", "n", "d", "l", "e", "r", ".", "r", "s">>

HeurQueries ==
    {<<>>, <<"a", "u", "t", "h">>, <<"h", "a", "n", "d", "l", "e", "r", " ", "s", "r", "c">>}

HeurSizes == {500, 3000, 600000}

HeurRoles ==
    {"Implementation", "Build", "Test", "Config", "Documentation", "Other", "Generated"}

HeuristicStart ==
    /\ uScorer = NewHeuristicScorer(<<>>)
    /\ uIn = [unix |-> <<>>, windows |-> <<>>, role |-> "Other", size |-> 0]
    /\ uOut = [unix |-> Frac(0, 1), windows |-> Frac(0, 1)]
    /\ uDone = FALSE

\* HeuristicScorer::new(query).
NewHeuristic ==
    /\ ~uDone
    /\ \E query \in HeurQueries :
          /\ NewHeuristicScorer(query) # uScorer
          /\ uScorer' = NewHeuristicScorer(query)
    /\ UNCHANGED <<uIn, uOut, uDone>>
    /\ UNCHANGED <<pipelineVars, repoVars, walkVars, roleVars, tokVars, bm25fVars>>

\* scorer.score(path, role, size) for one file, its path written with
\* forward slashes and with backslashes.
HeuristicCall ==
    /\ ~uDone
    /\ \E dirs \in UNION {[1..n -> HeurDirs] : n \in 0..MaxDepth},
          role \in HeurRoles, size \in HeurSizes :
          LET unix == JoinPath(dirs \o <<HeurFile>>, "/")
              windows == JoinPath(dirs \o <<HeurFile>>, "\\")
          IN  /\ uIn' = [unix |-> unix, windows |-> windows, role |-> role, size |-> size]
              /\ uOut' = [unix |-> HeuristicScore(uScorer, unix, role, size),
                          windows |-> HeuristicScore(uScorer, windows, role, size)]
    /\ uDone' = TRUE
    /\ UNCHANGED uScorer
    /\ UNCHANGED <<pipelineVars, repoVars, walkVars, roleVars, tokVars, bm25fVars>>

(***************************************************************************)
(* The index store (topo-index store.rs) as the commands use it: save and  *)
(* load of <root>/.topo/index.bin, and the inspect command.  A file is an  *)
(* inode holding a sequence of chunks; a directory entry names an inode.   *)
(* The snapshot written by the k-th save consists of chunks of value k.    *)
(***************************************************************************)

\* The number of saves a behaviour holds.
MaxSaves == 3
\* The number of chunks (write calls, read calls) of one snapshot.
SnapshotChunks == 2

IndexBin == "index.bin"
IndexTmp == "index.bin.tmp"
StoreNames == {IndexBin, IndexTmp}

NoInode == 0
Inodes == 1..MaxSaves

\* A variant of save that writes the snapshot into index.bin itself.
WritePathInPlace == IndexBin

\* The path save writes the snapshot to before it renames it to index.bin.
WritePath == IndexTmp

\* Decoding the bytes read: the index of save v for a complete snapshot, an
\* error for anything else.
Decode(bytes) ==
    IF /\ Len(bytes) = SnapshotChunks
       /\ bytes[1] \in Inodes
       /\ \A i \in 1..Len(bytes) : bytes[i] = bytes[1]
    THEN [kind |-> "Some", v |-> bytes[1]]
    ELSE [kind |-> "Err", v |-> 0]

\* load on a directory and inodes that do not change during the call:
\* Ok(None) when index.bin does not exist, else the bytes decoded.
Load(dir, ino) ==
    IF dir[IndexBin] = NoInode THEN [kind |-> "None", v |-> 0]
    ELSE Decode(ino[dir[IndexBin]])

\* A variant of inspect without the check that index.bin exists.
InspectRunUnchecked(dir, ino) ==
    LET loaded == Load(dir, ino)
    IN  IF loaded.kind = "Err" THEN "load error"
        ELSE IF loaded.kind = "None" THEN "Failed to load index"
        ELSE "Ok"

\* inspect run: the failure "No index found" when index.bin does not exist;
\* else the error of load, or "Failed to load index" when load returns
\* None, or the report.
InspectRun(dir, ino) ==
    IF dir[IndexBin] = NoInode THEN "No index found"
    ELSE LET loaded == Load(dir, ino)
         IN  IF loaded.kind = "Err" THEN "load error"
             ELSE IF loaded.kind = "None" THEN "Failed to load index"
             ELSE "Ok"

\* index run, lines 29-34: the existing index, none when forced or when load
\* returns None, and the error of load propagated.
IndexRunLoad(force, dir, ino) ==
    IF force THEN "full build"
    ELSE LET loaded == Load(dir, ino)
         IN  IF loaded.kind = "Err" THEN "load error"
             ELSE IF loaded.kind = "None" THEN "full build"
             ELSE "incremental build"

Idle == [pc |-> "idle"]

StoreStart ==
    /\ stDir = [n \in StoreNames |-> NoInode]
    /\ stInode = [i \in Inodes |-> <<>>]
    /\ stSaves = 0
    /\ stWriter = Idle
    /\ stReader = Idle
    /\ stCmd = Idle

\* save, first step: File::create on the write path, which makes a new
\* empty file or truncates the file the path names.
SaveBegin ==
    /\ stWriter.pc = "idle"
    /\ stSaves < MaxSaves
    /\ LET v == stSaves + 1
           fresh == stDir[WritePath] = NoInode
           target == IF fresh THEN v ELSE stDir[WritePath]
       IN  /\ stDir' = [stDir EXCEPT ![WritePath] = target]
           /\ stInode' = [stInode EXCEPT ![target] = <<>>]
           /\ stWriter' = [pc |-> "writing", v |-> v, written |-> 0]
    /\ UNCHANGED <<stSaves, stReader, stCmd>>
    /\ UNCHANGED <<pipelineVars, fpVars, scanVars, fusionVars, extVars>>

\* save, one write call: the next chunk of the snapshot.
SaveWrite ==
    /\ stWriter.pc = "writing"
    /\ stWriter.written < SnapshotChunks
    /\ stInode' = [stInode EXCEPT ![stDir[WritePath]] = Append(@, stWriter.v)]
    /\ stWriter' = [stWriter EXCEPT !.written = @ + 1]
    /\ UNCHANGED <<stDir, stSaves, stReader, stCmd>>
    /\ UNCHANGED <<pipelineVars, fpVars, scanVars, fusionVars, extVars>>

\* save, last step: rename(write path, index.bin), one atomic change of the
\* directory.
SaveRename ==
    /\ stWriter.pc = "writing"
    /\ stWriter.written = SnapshotChunks
    /\ stDir' = IF WritePath = IndexBin THEN stDir
                ELSE [stDir EXCEPT ![IndexBin] = stDir[WritePath], ![WritePath] = NoInode]
    /\ stSaves' = stSaves + 1
    /\ stWriter' = Idle
    /\ UNCHANGED <<stInode, stReader, stCmd>>
    /\ UNCHANGED <<pipelineVars, fpVars, scanVars, fusionVars, extVars>>

\* The number of the newest snapshot a load that ends now can have met.
NewestSave == IF stWriter.pc = "writing" THEN stWriter.v ELSE stSaves

\* load in a concurrent process, first step: open index.bin.
LoadOpen ==
    /\ stReader.pc \in {"idle", "done"}
    /\ stReader' =
          IF stDir[IndexBin] = NoInode
          THEN [pc |-> "done", from |-> stSaves, to |-> NewestSave,
                result |-> [kind |-> "None", v |-> 0]]
          ELSE [pc |-> "reading", fd |-> stDir[IndexBin], bytes |-> <<>>,
                from |-> stSaves]
    /\ UNCHANGED <<stDir, stInode, stSaves, stWriter, stCmd>>
    /\ UNCHANGED <<pipelineVars, fpVars, scanVars, fusionVars, extVars>>

\* load, one read call on the open file: its next chunk, or the end of the
\* file, at which the bytes read are decoded.
LoadRead ==
    /\ stReader.pc = "reading"
    /\ stReader' =
          IF Len(stReader.bytes) < Len(stInode[stReader.fd])
          THEN [stReader EXCEPT !.bytes = Append(@, stInode[stReader.fd][Len(@) + 1])]
          ELSE [pc |-> "done", from |-> stReader.from, to |-> NewestSave,
                result |-> Decode(stReader.bytes)]
    /\ UNCHANGED <<stDir, stInode, stSaves, stWriter, stCmd>>
    /\ UNCHANGED <<pipelineVars, fpVars, scanVars, fusionVars, extVars>>

\* index.bin is damaged from outside: cut short, or overwritten.
CorruptIndex ==
    /\ stDir[IndexBin] # NoInode
    /\ \E damaged \in {SubSeq(stInode[stDir[IndexBin]], 1, SnapshotChunks - 1),
                       [i \in 1..SnapshotChunks |-> 0]} :
          stInode' = [stInode EXCEPT ![stDir[IndexBin]] = damaged]
    /\ stCmd' = Idle
    /\ UNCHANGED <<stDir, stSaves, stWriter, stReader>>
    /\ UNCHANGED <<pipelineVars, fpVars, scanVars, fusionVars, extVars>>

\* index.bin is removed from outside.
RemoveIndex ==
    /\ stDir[IndexBin] # NoInode
    /\ stDir' = [stDir EXCEPT ![IndexBin] = NoInode]
    /\ stCmd' = Idle
    /\ UNCHANGED <<stInode, stSaves, stWriter, stReader>>
    /\ UNCHANGED <<pipelineVars, fpVars, scanVars, fusionVars, extVars>>

\* What index.bin is when a command runs.
IndexState ==
    IF stDir[IndexBin] = NoInode THEN "absent"
    ELSE IF Decode(stInode[stDir[IndexBin]]).kind = "Some" THEN "valid"
    ELSE "corrupt"

\* The inspect command.
Inspect ==
    /\ stCmd' = [pc |-> "done", command |-> "inspect", index |-> IndexState,
                 outcome |-> InspectRun(stDir, stInode)]
    /\ UNCHANGED <<stDir, stInode, stSaves, stWriter, stReader>>
    /\ UNCHANGED <<pipelineVars, fpVars, scanVars, fusionVars, extVars>>

\* The index command with --deep, up to the load of the existing index.
IndexLoad ==
    /\ \E force \in BOOLEAN :
          stCmd' = [pc |-> "done", command |-> "index", index |-> IndexState,
                    force |-> force,
                    loaded |-> IF force THEN [kind |-> "not called", v |-> 0]
                               ELSE Load(stDir, stInode),
                    outcome |-> IndexRunLoad(force, stDir, stInode)]
    /\ UNCHANGED <<stDir, stInode, stSaves, stWriter, stReader>>
    /\ UNCHANGED <<pipelineVars, fpVars, scanVars, fusionVars, extVars>>

(***************************************************************************)
(* Reciprocal rank fusion (atlas-score fusion.rs).  Scores are exact       *)
(* fractions in lowest terms.                                              *)
(***************************************************************************)

\* The largest number of rankings handed to fuse.
MaxRankings == 2
\* The largest number of additional rankings handed to fuse_scored.
MaxAdditional == 1

\* Default RRF constant.
DEFAULT_K == 60

\* The paths that occur in rankings.
FusionPaths == {<<"a">>, <<"b">>, <<"c">>}

RECURSIVE Gcd(_, _)
Gcd(a, b) == IF b = 0 THEN a ELSE Gcd(b, a % b)

\* a + b in lowest terms.
RatAdd(a, b) ==
    LET l == (a.den \div Gcd(a.den, b.den)) * b.den
        n == a.num * (l \div a.den) + b.num * (l \div b.den)
        g == Gcd(n, l)
    IN  Frac(n \div g, l \div g)

\* a < b, compared over the least common denominator.
RatLess(a, b) ==
    LET l == (a.den \div Gcd(a.den, b.den)) * b.den
    IN  a.num * (l \div a.den) < b.num * (l \div b.den)

\* RrfFusion::new() and with_k.
NewRrfFusion == [k |-> DEFAULT_K]
WithK(self, k) == [self EXCEPT !.k = k]

\* A variant of the term that leaves out the + 1.
RrfTermNoOffset(k, rank) == Frac(1, k + rank)

\* 1.0 / (self.k + rank as f64 + 1.0), rank counted from 0.
RrfTerm(k, rank) == Frac(1, k + rank + 1)

\* *rrf_scores.entry(path).or_default() += term.
AddTerm(rrf_scores, path, term) ==
    [q \in (DOMAIN rrf_scores) \cup {path} |->
        LET old == IF q \in DOMAIN rrf_scores THEN rrf_scores[q] ELSE Frac(0, 1)
        IN  IF q = path THEN RatAdd(old, term) ELSE old]

\* The inner loop over one ranking from its i-th entry on.
RECURSIVE AddRanking(_, _, _, _)
AddRanking(rrf_scores, ranking, i, k) ==
    IF i > Len(ranking) THEN rrf_scores
    ELSE AddRanking(AddTerm(rrf_scores, ranking[i], RrfTerm(k, i - 1)), ranking, i + 1, k)

\* The outer loop over the rankings from the j-th on.
RECURSIVE AddRankings(_, _, _, _)
AddRankings(rrf_scores, rankings, j, k) ==
    IF j > Len(rankings) THEN rrf_scores
    ELSE AddRankings(AddRanking(rrf_scores, rankings[j], 1, k), rankings, j + 1, k)

\* The map of RRF scores of a list of rankings.
RrfScores(k, rankings) == AddRankings(<<>>, rankings, 1, k)

\* A stable sort descending by key: each element is inserted behind the
\* last one whose key is not smaller.
InsertDescending(sorted, x) ==
    LET before == {i \in 1..Len(sorted) : ~RatLess(sorted[i].key, x.key)}
        n == IF before = {} THEN 0 ELSE CHOOSE i \in before : \A j \in before : j <= i
    IN  SubSeq(sorted, 1, n) \o <<x>> \o SubSeq(sorted, n + 1, Len(sorted))

RECURSIVE SortDescendingFrom(_, _, _)
SortDescendingFrom(keyed, i, sorted) ==
    IF i > Len(keyed) THEN sorted
    ELSE SortDescendingFrom(keyed, i + 1, InsertDescending(sorted, keyed[i]))

\* results.sort_by(|a, b| b.rrf_score.partial_cmp(&a.rrf_score)...).
SortByRrfScore(results) ==
    LET keyed == [i \in 1..Len(results) |-> [key |-> results[i].rrf_score, item |-> results[i]]]
        sorted == SortDescendingFrom(keyed, 1, <<>>)
    IN  [i \in 1..Len(sorted) |-> sorted[i].item]

\* base.sort_by(|a, b| b.score.partial_cmp(&a.score)...).
SortBaseByScore(base) ==
    LET keyed == [i \in 1..Len(base) |-> [key |-> base[i].score, item |-> base[i]]]
        sorted == SortDescendingFrom(keyed, 1, <<>>)
    IN  [i \in 1..Len(sorted) |-> sorted[i].item]

RrfResult(path, score) == [path |-> path, rrf_score |-> score]

\* The orders in which a HashMap with the given keys can be iterated: the
\* hasher is seeded at random for every map.
IterationOrders(keys) ==
    {o \in [1..Cardinality(keys) -> keys] :
        \A i, j \in 1..Cardinality(keys) : o[i] = o[j] => i = j}

\* RrfFusion::fuse, into_iter yielding the map's entries in the order iter.
Fuse(self, rankings, iter) ==
    LET rrf_scores == RrfScores(self.k, rankings)
        results == [i \in 1..Len(iter) |-> RrfResult(iter[i], rrf_scores[iter[i]])]
    IN  SortByRrfScore(results)

\* A variant of fuse_scored that leaves the base order out of the rankings.
FuseScoredWithoutBase(self, base, additional_rankings) ==
    IF additional_rankings = <<>> THEN base
    ELSE LET rrf_scores == RrfScores(self.k, additional_rankings)
             updated == [i \in 1..Len(base) |->
                            IF base[i].path \in DOMAIN rrf_scores
                            THEN [base[i] EXCEPT !.score = rrf_scores[base[i].path]]
                            ELSE base[i]]
         IN  SortBaseByScore(updated)

\* RrfFusion::fuse_scored: the value of base when it returns.
FuseScored(self, base, additional_rankings) ==
    IF additional_rankings = <<>> THEN base
    ELSE LET base_ranking == [i \in 1..Len(base) |-> base[i].path]
             all_rankings == <<base_ranking>> \o additional_rankings
             rrf_scores == RrfScores(self.k, all_rankings)
             updated == [i \in 1..Len(base) |->
                            IF base[i].path \in DOMAIN rrf_scores
                            THEN [base[i] EXCEPT !.score = rrf_scores[base[i].path]]
                            ELSE base[i]]
         IN  SortBaseByScore(updated)

\* The ranked lists drawn: every list of distinct paths.
Rankings ==
    {r \in UNION {[1..n -> FusionPaths] : n \in 0..Cardinality(FusionPaths)} :
        \A i, j \in 1..Len(r) : r[i] = r[j] => i = j}

RankingLists == UNION {[1..n -> Rankings] : n \in 0..MaxRankings}

AdditionalLists == UNION {[1..n -> Rankings] : n \in 0..MaxAdditional}

\* make_scored(path, score) of the fusion tests.
MakeScored(path, score) ==
    [path |-> path, score |-> Frac(score, 1), tokens |-> 100,
     language |-> "Rust", role |-> "Implementation"]

\* The base lists drawn: a ranking with scores descending from its length.
BaseOf(r) == [i \in 1..Len(r) |-> MakeScored(r[i], Len(r) + 1 - i)]

FusionStart ==
    /\ fusion = NewRrfFusion
    /\ fRankings = <<>>
    /\ fOut = <<>>
    /\ fAgain = <<>>
    /\ fBase = <<>>
    /\ fAdditional = <<>>
    /\ fBaseOut = <<>>
    /\ fCalled = "none"

\* RrfFusion::new().with_k(k).
SetK ==
    /\ fCalled = "none"
    /\ \E k \in {1, DEFAULT_K} : fusion' = WithK(fusion, k)
    /\ UNCHANGED <<fRankings, fOut, fAgain, fBase, fAdditional, fBaseOut, fCalled>>
    /\ UNCHANGED <<pipelineVars, fpVars, scanVars, storeVars, extVars>>

\* fuse is called twice on the same rankings.
FuseCall ==
    /\ fCalled = "none"
    /\ \E rankings \in RankingLists :
          LET keys == DOMAIN RrfScores(fusion.k, rankings)
              returns == {Fuse(fusion, rankings, iter) : iter \in IterationOrders(keys)}
          IN  \E first \in returns, second \in returns :
                 /\ fRankings' = rankings
                 /\ fOut' = first
                 /\ fAgain' = second
    /\ fCalled' = "fuse"
    /\ UNCHANGED <<fusion, fBase, fAdditional, fBaseOut>>
    /\ UNCHANGED <<pipelineVars, fpVars, scanVars, storeVars, extVars>>

\* fuse_scored is called on a base list and additional rankings.
FuseScoredCall ==
    /\ fCalled = "none"
    /\ \E r \in Rankings, additional \in AdditionalLists :
          /\ fBase' = BaseOf(r)
          /\ fAdditional' = additional
          /\ fBaseOut' = FuseScored(fusion, BaseOf(r), additional)
    /\ fCalled' = "fuse_scored"
    /\ UNCHANGED <<fusion, fRankings, fOut, fAgain>>
    /\ UNCHANGED <<pipelineVars, fpVars, scanVars, storeVars, extVars>>

(***************************************************************************)
(* Specifications.                                                         *)
(***************************************************************************)

Init ==
    /\ BudgetStart /\ RenderStart /\ HybridStart /\ IndexStart
    /\ FingerprintStart
    /\ ScanStart
    /\ StoreStart
    /\ FusionStart
    /\ WalkStart
    /\ RoleStart
    /\ TokenizerStart
    /\ Bm25fStart
    /\ HeuristicStart

BudgetNext == NewBudget \/ EnforceCall

RenderNext == SetMaxBytes \/ SetMinScore \/ Render

SpecBudget == Init /\ [][BudgetNext]_vars

SpecRender == Init /\ [][RenderNext]_vars

HybridNext == Weights \/ Score \/ ScoreWithIndex

SpecHybrid == Init /\ [][HybridNext]_vars

IndexNext == WriteFile \/ DeleteFile \/ IndexShallow \/ IndexDeep

SpecIndex == Init /\ [][IndexNext]_vars

FingerprintNext == GenerateCall

SpecFingerprint == Init /\ [][FingerprintNext]_vars

ScanNext == ScanWriteFile \/ ScanDeleteFile \/ SetFault \/ ScanTree

SpecScan == Init /\ [][ScanNext]_vars

StoreNext == SaveBegin \/ SaveWrite \/ SaveRename \/ LoadOpen \/ LoadRead

SpecStore == Init /\ [][StoreNext]_vars

InspectNext ==
    \/ SaveBegin \/ SaveWrite \/ SaveRename
    \/ CorruptIndex \/ RemoveIndex
    \/ Inspect \/ IndexLoad

SpecInspect == Init /\ [][InspectNext]_vars

WalkNext == SetNode \/ SetRoot \/ ScanRoot

SpecWalk == Init /\ [][WalkNext]_vars

RoleNext == Classify

SpecRole == Init /\ [][RoleNext]_vars

TokenizerNext == TokenizeCall

SpecTokenizer == Init /\ [][TokenizerNext]_vars

Bm25fNext == NewScorer \/ ScoreCall \/ ScorePathCall

SpecBm25f == Init /\ [][Bm25fNext]_vars

HeuristicNext == NewHeuristic \/ HeuristicCall

SpecHeuristic == Init /\ [][HeuristicNext]_vars

FusionNext == SetK \/ FuseCall \/ FuseScoredCall

SpecFusion == Init /\ [][FusionNext]_vars

(***************************************************************************)
(* Claims about TokenBudget::enforce.                                      *)
(***************************************************************************)

\* The sum of the token counts of the first n files.
RECURSIVE CumTokens(_, _)
CumTokens(files, n) == IF n = 0 THEN 0 ELSE CumTokens(files, n - 1) + files[n].tokens

\* Both cumulative sums over the first n files stay within every cap set.
WithinCaps(b, files, n) ==
    /\ b.max_tokens.some => CumTokens(files, n) <= b.max_tokens.v
    /\ b.max_bytes.some => CumTokens(files, n) * BytesPerToken <= b.max_bytes.v

\* File i of the input occurs in the output.
Included(i) == \E k \in 1..Len(bOut) : bOut[k] = bIn[i]

\* C1: the output of enforce is a prefix of its input: the first n input
\* files, in order and unmodified, for some n <= len(input).
C1_OutputIsPrefix ==
    bCalled => /\ Len(bOut) <= Len(bIn)
               /\ bOut = SubSeq(bIn, 1, Len(bOut))

\* A call with a cap set that cut a three-file list after its second file.
C1_Witness ==
    /\ bCalled
    /\ budget.max_tokens.some
    /\ Len(bIn) = 3
    /\ Len(bOut) = 2

\* C2: a nonempty input always yields at least its first file, even when that
\* file alone exceeds a cap; an empty input yields an empty output.
C2_FirstFileAlwaysIncluded ==
    bCalled => /\ (bIn = <<>> => bOut = <<>>)
               /\ (bIn # <<>> => Len(bOut) >= 1 /\ bOut[1] = bIn[1])

\* A call whose first file alone exceeds max_bytes and is still returned.
C2_Witness ==
    /\ bCalled
    /\ bIn # <<>>
    /\ budget.max_bytes.some
    /\ bIn[1].tokens * BytesPerToken > budget.max_bytes.v
    /\ Len(bOut) = 1

\* C3: greedy prefix: a file after the first is included exactly when both
\* cumulative sums including it stay within every cap set; nothing after the
\* first overflowing file is included; with no cap set everything is returned.
C3_GreedyPrefix ==
    bCalled =>
        /\ \A i \in 2..Len(bIn) : Included(i) <=> WithinCaps(budget, bIn, i)
        /\ \A i \in 2..Len(bIn) : ~Included(i) => \A j \in i..Len(bIn) : ~Included(j)
        /\ (~budget.max_bytes.some /\ ~budget.max_tokens.some) => bOut = bIn

\* A call that stopped at the second file although the third alone would fit.
C3_Witness ==
    /\ bCalled
    /\ Len(bIn) = 3
    /\ Len(bOut) = 1
    /\ budget.max_tokens.some
    /\ bIn[1].tokens + bIn[2].tokens > budget.max_tokens.v
    /\ bIn[3].tokens <= budget.max_tokens.v
    /\ bIn[1].tokens + bIn[3].tokens <= budget.max_tokens.v

(***************************************************************************)
(* Claims about JsonlWriter.                                               *)
(***************************************************************************)

\* The lines of a text: the runs of elements that a line feed ends.
Lines(text) ==
    LET pos == {i \in 1..Len(text) : text[i] = LF}
        n == Cardinality(pos)
        ends == [k \in 1..n |-> CHOOSE i \in pos : Cardinality({j \in pos : j <= i}) = k]
    IN  [k \in 1..n |-> SubSeq(text, IF k = 1 THEN 1 ELSE ends[k - 1] + 1, ends[k] - 1)]

\* A line is one JSON object whose first key is k.
IsRecord(line, k) ==
    /\ Len(line) >= 3
    /\ line[1] = Ch("{")
    /\ line[2] = Key(k)
    /\ line[Len(line)] = Ch("}")

\* The number written after key k of a line.
FieldNum(line, k) ==
    LET i == CHOOSE i \in 1..(Len(line) - 1) : line[i] = Key(k) IN line[i + 1].n

\* The lines among ls that are file records.
FileLines(ls) == SelectSeq(ls, LAMBDA l : IsRecord(l, "Path"))

RECURSIVE SumTokens(_)
SumTokens(ls) == IF ls = <<>> THEN 0 ELSE FieldNum(Head(ls), "Tokens") + SumTokens(Tail(ls))

\* C4: with n file records written the output is exactly n + 2 lines: the
\* header (Version "0.3") first, the n file records, the footer last, each
\* line ended by one line feed.
C4_LineCount ==
    rDone =>
        LET ls == Lines(rOut)
            n == Len(rFiles)
        IN  /\ rOut # <<>> /\ rOut[Len(rOut)] = LF
            /\ Len(ls) = n + 2
            /\ \A i \in 1..Len(ls) : ls[i] # <<>>
            /\ IsRecord(ls[1], "Version")
            /\ SubSeq(ls[1], 3, 7) = <<Ch("\""), Ch("0"), Ch("."), Ch("3"), Ch("\"")>>
            /\ \A i \in 1..n : IsRecord(ls[i + 1], "Path")
            /\ IsRecord(ls[n + 2], "TotalFiles")

\* A rendering of two files, one of whose paths holds a line feed, under a
\* query that holds one too.
C4_Witness ==
    /\ rDone
    /\ Len(rFiles) = 2
    /\ \E k \in 1..Len(rFiles[1].path) : rFiles[1].path[k] = "\n"
    /\ \E k \in 1..Len(writer.query) : writer.query[k] = "\n"
    /\ Len(Lines(rOut)) = 4

\* C5: no file record with Score < MinScore appears in the output, and the
\* footer's TotalFiles counts the files at or above min_score.
C5_BelowMinScoreDropped ==
    rDone =>
        LET ls == Lines(rOut)
            kept == SelectSeq(rFiles, LAMBDA f : f.score >= writer.min_score)
        IN  /\ \A i \in 1..Len(ls) :
                  IsRecord(ls[i], "Path") => FieldNum(ls[i], "Score") >= writer.min_score
            /\ FieldNum(ls[Len(ls)], "TotalFiles") = Len(kept)
            /\ Len(ls) = Len(kept) + 2

\* C6: the footer's TotalFiles is the number of file records written, its
\* TotalTokens the sum of their Tokens fields, and its ScannedFiles the
\* scanned_count argument, whatever the length of the list.
C6_FooterTotals ==
    rDone =>
        LET ls == Lines(rOut)
            footer == ls[Len(ls)]
            written == FileLines(ls)
        IN  /\ IsRecord(footer, "TotalFiles")
            /\ FieldNum(footer, "TotalFiles") = Len(written)
            /\ FieldNum(footer, "TotalTokens") = SumTokens(written)
            /\ FieldNum(footer, "ScannedFiles") = rScanned

\* A rendering of two files with tokens whose scanned_count differs from the
\* number of files.
C6_Witness ==
    /\ rDone
    /\ Len(rFiles) = 2
    /\ rScanned # Len(rFiles)
    /\ FieldNum(Lines(rOut)[Len(Lines(rOut))], "TotalTokens")
          = rFiles[1].tokens + rFiles[2].tokens
    /\ rFiles[1].tokens # rFiles[2].tokens

(***************************************************************************)
(* Claims about HybridScorer.                                              *)
(***************************************************************************)

\* The position of path p in the input list.
InputIndex(p) == CHOOSE i \in 1..Len(hIn) : hIn[i].path = p

\* C7: the output holds exactly one ScoredFile per input FileInfo and is
\* sorted non-increasing by score; an empty input gives an empty output.
C7_SortedOnePerInput ==
    hDone =>
        /\ Len(hOut) = Len(hIn)
        /\ \A i \in 1..Len(hIn) :
              Cardinality({k \in 1..Len(hOut) : hOut[k].path = hIn[i].path}) = 1
        /\ \A k \in 1..(Len(hOut) - 1) : ~FracLess(hOut[k].score, hOut[k + 1].score)
        /\ (hIn = <<>> => hOut = <<>>)

\* A scoring of three files that had to move the last input file to the front.
C7_Witness ==
    /\ hDone
    /\ Len(hIn) = 3
    /\ hOut[1].path = hIn[3].path
    /\ FracLess(hOut[3].score, hOut[1].score)

\* C8: two files whose combined scores are equal appear in the output in the
\* order they had in the input.
C8_StableTieBreak ==
    hDone =>
        \A i \in 1..Len(hOut) : \A j \in (i + 1)..Len(hOut) :
            (~FracLess(hOut[i].score, hOut[j].score) /\ ~FracLess(hOut[j].score, hOut[i].score))
                => InputIndex(hOut[i].path) < InputIndex(hOut[j].path)

\* A scoring in which two files tie on the combined score with different
\* signals while a third, later in the input, outranks both.
C8_Witness ==
    /\ hDone
    /\ Len(hIn) = 3
    /\ hOut[1].path = hIn[3].path
    /\ hOut[2].path = hIn[1].path
    /\ hOut[3].path = hIn[2].path
    /\ ~FracLess(hOut[2].score, hOut[3].score)
    /\ ~FracLess(hOut[3].score, hOut[2].score)
    /\ hOut[2].signals # hOut[3].signals

(***************************************************************************)
(* Claims about the index build.                                           *)
(***************************************************************************)

\* Every file of the list has an entry in the index with its path and sha256.
EveryFileMatches(files, index) ==
    \A i \in 1..Len(files) :
        /\ files[i].path \in DOMAIN index.files
        /\ index.files[files[i].path].sha256 = files[i].sha256

\* No file changed since the index was built: every file matches its entry
\* and the index holds no entry for any other path.
NoFileChanges(files, index) ==
    /\ EveryFileMatches(files, index)
    /\ DOMAIN index.files = {files[i].path : i \in 1..Len(files)}

\* C9: an incremental rebuild with no file changes returns reindexed = 0 and
\* an index equal by content to the existing one; every file whose path and
\* sha256 match an existing entry keeps that entry verbatim and is not read.
C9_NoChangeRebuild ==
    (run.some /\ run.deep /\ run.existing.some) =>
        /\ EveryFileMatches(run.files, run.existing.v) =>
              /\ run.reindexed = 0
              /\ run.read = {}
              /\ \A i \in 1..Len(run.files) :
                    /\ run.files[i].path \in DOMAIN run.index.v.files
                    /\ run.index.v.files[run.files[i].path]
                          = run.existing.v.files[run.files[i].path]
        /\ NoFileChanges(run.files, run.existing.v) =>
              /\ run.index.v.files = run.existing.v.files
              /\ run.index.v.doc_frequencies = run.existing.v.doc_frequencies
              /\ run.index.v.avg_doc_length = run.existing.v.avg_doc_length
              /\ run.index.v.total_docs = run.existing.v.total_docs
              /\ run.index.v = run.existing.v

\* An incremental run over two unchanged files.
C9_Witness ==
    /\ run.some /\ run.deep /\ run.existing.some
    /\ Len(run.files) = 2
    /\ NoFileChanges(run.files, run.existing.v)
    /\ run.reindexed = 0
    /\ run.index.v = run.existing.v

\* The terms that occur in some entry of an index.
TermsOf(index) == UNION {DOMAIN index.files[p].term_frequencies : p \in DOMAIN index.files}

\* The derived statistics of an index match its entries.
StatsMatch(index) ==
    LET ps == DOMAIN index.files
        total_length == SumOver(ps, [p \in ps |-> index.files[p].doc_length])
    IN  /\ index.total_docs = Cardinality(ps)
        /\ DOMAIN index.doc_frequencies = TermsOf(index)
        /\ \A t \in DOMAIN index.doc_frequencies :
              /\ index.doc_frequencies[t]
                    = Cardinality({p \in ps : t \in DOMAIN index.files[p].term_frequencies})
              /\ index.doc_frequencies[t] > 0
        /\ IF ps = {}
           THEN index.avg_doc_length.num = index.avg_doc_length.den
           ELSE index.avg_doc_length.num * Cardinality(ps)
                   = total_length * index.avg_doc_length.den

\* C10: after every build, full or incremental, the statistics match the
\* entry set: total_docs = |files|, doc_frequencies[t] = the number of
\* entries holding t with no zero and no stale term, and avg_doc_length = the
\* mean doc_length, or 1 with no files.  The same holds of the index saved.
C10_StatsMatchEntries ==
    /\ (run.some /\ run.deep) => StatsMatch(run.index.v)
    /\ disk.some => StatsMatch(disk.v)

\* An incremental build that replaced one entry and dropped another, so that
\* a term of the existing index is gone.
C10_Witness ==
    /\ run.some /\ run.deep /\ run.existing.some
    /\ run.reindexed = 1
    /\ \E p \in DOMAIN run.existing.v.files : p \notin DOMAIN run.index.v.files
    /\ \E p \in DOMAIN run.index.v.files :
          /\ p \in DOMAIN run.existing.v.files
          /\ run.index.v.files[p].sha256 # run.existing.v.files[p].sha256
    /\ \E t \in DOMAIN run.existing.v.doc_frequencies :
          t \notin DOMAIN run.index.v.doc_frequencies

(***************************************************************************)
(* Claims about the fingerprint.                                           *)
(***************************************************************************)

\* b is a permutation of a.
IsPermutation(a, b) ==
    /\ Len(a) = Len(b)
    /\ \E p \in [1..Len(a) -> 1..Len(a)] :
          /\ \A i, j \in 1..Len(a) : p[i] = p[j] => i = j
          /\ \A i \in 1..Len(a) : b[i] = a[p[i]]

\* C13: generate is insensitive to input order: for every file list and
\* every permutation of it generate returns the same string.
C13_OrderInsensitive ==
    (gDone /\ IsPermutation(gA, gB)) => gOutA = gOutB

\* Two files given in descending order of their entries and then swapped.
C13_Witness ==
    /\ gDone
    /\ Len(gA) = 2
    /\ StrLess(FormatEntry(gA[2]), FormatEntry(gA[1]))
    /\ gB = <<gA[2], gA[1]>>
    /\ gOutA = gOutB

\* How often the pair (path, size) of f occurs in a listing.
Occurrences(files, f) ==
    Cardinality({i \in 1..Len(files) : files[i].path = f.path /\ files[i].size = f.size})

\* Two listings are the same collection of (path, size) pairs.
SameCollection(a, b) == \A f \in FpFiles : Occurrences(a, f) = Occurrences(b, f)

\* C14: any two file listings that differ as collections of (path, size)
\* pairs produce different fingerprints, for all paths a file system can
\* hold.
C14_DifferentListingsDiffer ==
    (gDone /\ ~SameCollection(gA, gB)) => gOutA # gOutB

(***************************************************************************)
(* Claims about the scanner and the bundle.                                *)
(***************************************************************************)

\* C11: two scans of the same tree with no mutation in between yield
\* identical files lists and identical fingerprints, whatever order the
\* directory walker yields the entries in.
C11_RescanIdentical ==
    (sPrev.some /\ sLast.some /\ sPrev.tree = sLast.tree /\ sPrev.fault = sLast.fault) =>
        /\ sPrev.bundle.files = sLast.bundle.files
        /\ sPrev.bundle.fingerprint = sLast.bundle.fingerprint

\* The scan recorded in s read the file of name n.
Scanned(s, n) == s.tree[n] # <<>> /\ ~(s.fault.some /\ s.fault.name = n)

\* The content of the file n, read by both scans, was edited in between.
Edited(n) ==
    /\ sPrev.some /\ sLast.some
    /\ Scanned(sPrev, n) /\ Scanned(sLast, n)
    /\ sPrev.tree[n] # sLast.tree[n]

\* How many files of the scan carry path p and digest h.
ShaCount(s, p, h) ==
    Cardinality({i \in 1..Len(s.bundle.files) :
                    s.bundle.files[i].path = p /\ s.bundle.files[i].sha256 = h})

\* The FileInfo of the edited file n carries another sha256 in the last scan:
\* one file less with the digest of the old content under its path, one
\* more with the digest of the new.
ShaChanged(n) ==
    LET p == ToStringLossy(n)
        old == Sha256Bytes(sPrev.tree[n])
        new == Sha256Bytes(sLast.tree[n])
    IN  /\ old # new
        /\ ShaCount(sLast, p, old) = ShaCount(sPrev, p, old) - 1
        /\ ShaCount(sLast, p, new) = ShaCount(sPrev, p, new) + 1

\* C12 as stated: any content edit of a scanned file changes that file's
\* sha256 in the next scan and changes the bundle's fingerprint, also an
\* edit that leaves the file's path and size unchanged.
C12_EditChangesFingerprint ==
    \A n \in DiskNames :
        Edited(n) =>
            /\ ShaChanged(n)
            /\ sPrev.bundle.fingerprint # sLast.bundle.fingerprint

\* C12 amended: any content edit of a scanned file changes that file's
\* sha256 in the next scan; the fingerprint changes when the edit changes
\* the file's size and is the same when the edit leaves the size unchanged.
C12_EditChangesShaAndSizeFingerprint ==
    \A n \in DiskNames :
        Edited(n) =>
            /\ ShaChanged(n)
            /\ (sPrev.bundle.fingerprint # sLast.bundle.fingerprint)
                  <=> (Len(sPrev.tree[n]) # Len(sLast.tree[n]))

\* An edit of one of two files that keeps its size: another sha256, the
\* same fingerprint.
C12_Witness ==
    /\ Cardinality(Present(fs)) >= 2
    /\ \E n \in DiskNames :
          /\ Edited(n)
          /\ Len(sPrev.tree[n]) = Len(sLast.tree[n])
          /\ ShaChanged(n)
          /\ sPrev.bundle.fingerprint = sLast.bundle.fingerprint

\* The FileInfo scan emits for the file of name n.
FileInfoOf(s, n) ==
    [path |-> ToStringLossy(n),
     size |-> Len(s.tree[n]),
     language |-> LanguageFromPath(n),
     role |-> RoleFromPath(n),
     sha256 |-> Sha256Bytes(s.tree[n])]

\* The names whose file the scan could read.
Readable(s) == {n \in DiskNames : Scanned(s, n)}

\* C20: when a walk entry, a metadata read or a content read fails for one
\* file, that file is omitted, the scan goes on and returns Ok with every
\* other file.
C20_ErrorsLocalized ==
    sLast.some =>
        /\ sLast.bundle.ok
        /\ Len(sLast.bundle.files) = Cardinality(Readable(sLast))
        /\ \A n \in Readable(sLast) :
              Cardinality({i \in 1..Len(sLast.bundle.files) :
                              sLast.bundle.files[i] = FileInfoOf(sLast, n)})
                 = Cardinality({m \in Readable(sLast) :
                                   FileInfoOf(sLast, m) = FileInfoOf(sLast, n)})

\* A scan of three files, the content read of one of them failing.
C20_Witness ==
    /\ sLast.some
    /\ Cardinality(Present(sLast.tree)) = 3
    /\ sLast.fault.some /\ sLast.fault.stage = "read"
    /\ sLast.bundle.ok
    /\ Len(sLast.bundle.files) = 2

(***************************************************************************)
(* Claims about the store and the commands that load the index.            *)
(***************************************************************************)

\* C15: while one writer saves a new index, a load running at any
\* interleaving point observes either the complete previous snapshot or the
\* complete new snapshot, never a torn file.
C15_LoadNeverTorn ==
    stReader.pc = "done" =>
        /\ stReader.result.kind # "Err"
        /\ stReader.result.kind = "None" => stReader.from = 0
        /\ stReader.result.kind = "Some" =>
              /\ stReader.from <= stReader.result.v
              /\ stReader.result.v <= stReader.to

\* A load that opened the snapshot of the first save, read it while the
\* second save ran, and returned the first snapshot whole.
C15_Witness ==
    /\ stReader.pc = "done"
    /\ stReader.from = 1
    /\ stReader.to = 2
    /\ stReader.result = [kind |-> "Some", v |-> 1]

RankOf(ranking, p) == (CHOOSE i \in 1..Len(ranking) : ranking[i] = p) - 1

Contains(ranking, p) == \E i \in 1..Len(ranking) : ranking[i] = p

\* The sum over the rankings from the j-th on that contain p of
\* 1 / (k + rank + 1), a ranking without p adding 0.
RECURSIVE RrfSum(_, _, _, _)
RrfSum(k, rankings, j, p) ==
    IF j > Len(rankings) THEN Frac(0, 1)
    ELSE LET rest == RrfSum(k, rankings, j + 1, p)
         IN  IF Contains(rankings[j], p)
             THEN RatAdd(Frac(1, k + RankOf(rankings[j], p) + 1), rest)
             ELSE rest

\* Two fractions denote the same number.
RatEq(a, b) == ~RatLess(a, b) /\ ~RatLess(b, a)

PathsIn(rankings) == {p \in FusionPaths : \E j \in 1..Len(rankings) : Contains(rankings[j], p)}

\* C17: fuse gives every path of any ranking the score
\* sum_i 1 / (k + rank_i(p) + 1) over the rankings that contain it, one
\* entry per distinct path, sorted by rrf_score descending.
C17_FuseScores ==
    fCalled = "fuse" =>
        /\ Len(fOut) = Cardinality(PathsIn(fRankings))
        /\ {fOut[i].path : i \in 1..Len(fOut)} = PathsIn(fRankings)
        /\ \A i \in 1..Len(fOut) :
              RatEq(fOut[i].rrf_score, RrfSum(fusion.k, fRankings, 1, fOut[i].path))
        /\ \A i, j \in 1..Len(fOut) :
              i < j => ~RatLess(fOut[i].rrf_score, fOut[j].rrf_score)

\* k = 60, a path in both rankings and paths in one ranking only.
C17_Witness ==
    /\ fCalled = "fuse"
    /\ fusion.k = DEFAULT_K
    /\ fRankings = << <<(<<"a">>), (<<"b">>)>>, <<(<<"c">>), (<<"a">>)>> >>
    /\ Len(fOut) = 3
    /\ fOut[1] = RrfResult(<<"a">>, Frac(123, 3782))

\* What fuse_scored is to leave in base: every file of base with its RRF
\* score over the base order and the additional rankings.
C18_FuseScored ==
    fCalled = "fuse_scored" =>
        IF fAdditional = <<>> THEN fBaseOut = fBase
        ELSE LET base_ranking == [i \in 1..Len(fBase) |-> fBase[i].path]
                 all == <<base_ranking>> \o fAdditional
             IN  /\ Len(fBaseOut) = Len(fBase)
                 /\ {fBaseOut[i].path : i \in 1..Len(fBaseOut)}
                       = {fBase[i].path : i \in 1..Len(fBase)}
                 /\ \A i \in 1..Len(fBaseOut) :
                       /\ RatEq(fBaseOut[i].score,
                                RrfSum(fusion.k, all, 1, fBaseOut[i].path))
                       /\ \E j \in 1..Len(fBase) :
                             fBaseOut[i] = [fBase[j] EXCEPT !.score = fBaseOut[i].score]
                 /\ \A i, j \in 1..Len(fBaseOut) :
                       i < j => ~RatLess(fBaseOut[i].score, fBaseOut[j].score)

\* An additional ranking that holds a path outside base and moves the last
\* file of base to the front.
C18_Witness ==
    /\ fCalled = "fuse_scored"
    /\ Len(fBase) = 2
    /\ Len(fAdditional) = 1
    /\ \E p \in FusionPaths :
          /\ Contains(fAdditional[1], p)
          /\ \A i \in 1..Len(fBase) : fBase[i].path # p
    /\ fBaseOut[1].path = fBase[2].path
    /\ RatLess(fBaseOut[2].score, fBaseOut[1].score)

\* C19: two calls of fuse with the same rankings return the paths in the
\* same order, also when several paths have exactly equal fused scores.
C19_FuseOrderDeterministic ==
    fCalled = "fuse" =>
        [i \in 1..Len(fOut) |-> fOut[i].path] = [i \in 1..Len(fAgain) |-> fAgain[i].path]

(***************************************************************************)
(* Claims about the scanner over a tree of entries of every kind.          *)
(***************************************************************************)

EmittedPaths(result) == {result.files[i].path : i \in 1..Len(result.files)}

\* C22: scan never emits a file that lies under the data directory
\* <root>/.topo, whatever the ignore files say, while a dotfile and a file
\* whose name merely begins with ".topo" are emitted unless an ignore rule
\* excludes them.
C22_DataDirectoryExcluded ==
    wOut.some =>
        /\ TopoDir \notin EmittedPaths(wOut.result)
        /\ TopoFile \notin EmittedPaths(wOut.result)
        /\ \A n \in {DotFile, Topology} :
              (wRoot /\ wTree[n].kind = "file" /\ n \notin wOut.ignored)
                  => n \in EmittedPaths(wOut.result)

\* A scan of a tree that holds .topo/a and .topology, no rule excluding
\* either: the second is emitted, the first is not.
C22_Witness ==
    /\ wOut.some /\ wRoot /\ wOut.ignored = {}
    /\ wTree[TopoFile].kind = "file"
    /\ wTree[Topology].kind = "file"
    /\ wTree[DotFile].kind = "file"
    /\ EmittedPaths(wOut.result) = {DotFile, Topology}

\* C27: scan emits only regular files: no directory, symbolic link or
\* other non-regular entry is emitted, and every emitted FileInfo has the
\* size and sha256 of the contents of the regular file at its path.
C27_OnlyRegularFiles ==
    wOut.some =>
        \A i \in 1..Len(wOut.result.files) :
            LET f == wOut.result.files[i]
            IN  /\ f.path \in WalkNames
                /\ wTree[f.path].kind = "file"
                /\ f.size = Len(wTree[f.path].contents)
                /\ f.sha256 = Sha256Bytes(wTree[f.path].contents)

(***************************************************************************)
(* Claims about FileRole::from_path.                                       *)
(***************************************************************************)

\* The place of a role in the priority order, 1 the highest.
Priority(role) ==
    CASE role = "Generated" -> 1
      [] role = "Test" -> 2
      [] role = "Build" -> 3
      [] role = "Config" -> 4
      [] role = "Documentation" -> 5
      [] role = "Implementation" -> 6
      [] role = "Other" -> 7

\* The rule of a role matches the path; no rule guards Other.
Matches(role, path) ==
    CASE role = "Generated" -> IsGenerated(path)
      [] role = "Test" -> IsTest(path)
      [] role = "Build" -> IsBuild(path)
      [] role = "Config" -> IsConfig(path)
      [] role = "Documentation" -> IsDocumentation(path)
      [] role = "Implementation" -> IsImplementation(path)
      [] role = "Other" -> TRUE

Roles == {"Generated", "Test", "Build", "Config", "Documentation", "Implementation", "Other"}

\* C23: from_path gives a path the role of the highest-priority rule it
\* matches and Other when it matches none: vendor/pkg/handler_test.go is
\* Generated, Cargo.toml is Build, docs/architecture.rs is Documentation.
C23_FirstMatchWins ==
    cRole # NotClassified =>
        /\ cRole \in Roles
        /\ Matches(cRole, cPath)
        /\ \A r \in Roles : Matches(r, cPath) => Priority(cRole) <= Priority(r)
        /\ cPath = RolePath(<<"vendor", "pkg">>, <<"handler", "_test", ".", "go">>)
              => cRole = "Generated"
        /\ cPath = RolePath(<<>>, <<"Cargo", ".", "toml">>) => cRole = "Build"
        /\ cPath = RolePath(<<"docs">>, <<"architecture", ".", "rs">>)
              => cRole = "Documentation"

\* A path in vendor/ that the rule of test files matches as well,
\* classified Generated.
C23_Witness ==
    /\ cPath = RolePath(<<"vendor", "pkg">>, <<"handler", "_test", ".", "go">>)
    /\ IsGenerated(cPath) /\ IsTest(cPath) /\ IsImplementation(cPath)
    /\ cRole = "Generated"

(***************************************************************************)
(* Claims about the tokenizer.                                             *)
(***************************************************************************)

\* C24: for every input s, every token of tokenize(join(tokenize(s), " "))
\* is a token of tokenize(s): tokenizing the joined output again brings no
\* new token.
C24_RetokenizeNoNewToken ==
    tDone => \A i \in 1..Len(tAgain) : \E j \in 1..Len(tOut) : tAgain[i] = tOut[j]

\* A text of several tokens that differs from its tokens joined by spaces.
C24_Witness ==
    /\ tDone
    /\ Len(tOut) >= 2
    /\ tIn # JoinTokens(tOut)
    /\ tAgain = tOut

\* The text is one sub-fragment: not empty, no separator, no underscore.
IsSubFragment(s) ==
    s # <<>> /\ \A i \in 1..Len(s) : s[i] \notin Separators \cup {"_"}

\* The positions at which the pieces after the first begin.
RECURSIVE PieceStarts(_, _)
PieceStarts(pieces, at) ==
    IF pieces = <<>> THEN {}
    ELSE (IF at > 1 THEN {at} ELSE {})
            \cup PieceStarts(Tail(pieces), at + Len(pieces[1]))

\* Where the two rules split: before an uppercase letter that follows a
\* lowercase one, and before the last letter of a run of uppercase letters
\* that a lowercase one follows.
CaseBoundaries(s) ==
    {i \in 2..Len(s) : IsAsciiLowercase(s[i - 1]) /\ IsAsciiUppercase(s[i])}
      \cup {i - 1 : i \in {k \in 3..Len(s) :
                              /\ IsAsciiUppercase(s[k - 2])
                              /\ IsAsciiUppercase(s[k - 1])
                              /\ IsAsciiLowercase(s[k])}}

\* C28: within a sub-fragment a split occurs exactly at a lower-to-upper
\* boundary and at an upper-run-to-lower boundary, one character back, and
\* nowhere else; parseHTTPResponse gives parse, http, response and FileInfo
\* gives file, info.
C28_CaseSplitExactly ==
    (tDone /\ IsSubFragment(tIn)) =>
        /\ PieceStarts(tPieces, 1) = CaseBoundaries(tIn)
        /\ tIn = <<"p", "a", "r", "s", "e", "H", "T", "T", "P",
                   "R", "e", "s", "p", "o", "n", "s", "e">>
              => tOut = << <<"p", "a", "r", "s", "e">>, <<"h", "t", "t", "p">>,
                           <<"r", "e", "s", "p", "o", "n", "s", "e">> >>
        /\ tIn = <<"F", "i", "l", "e", "I", "n", "f", "o">>
              => tOut = << <<"f", "i", "l", "e">>, <<"i", "n", "f", "o">> >>

StopWordSet == {STOP_WORDS[i] : i \in 1..Len(STOP_WORDS)}

StopWordsAscending ==
    \A i \in 1..(Len(STOP_WORDS) - 1) : StrLess(STOP_WORDS[i], STOP_WORDS[i + 1])

\* The token tokenize keeps for a sub-token, if any.
Kept(lower) == Len(lower) >= 2 /\ lower \notin StopWordSet

RECURSIVE Flatten(_)
Flatten(pieces) ==
    IF pieces = <<>> THEN <<>> ELSE pieces[1] \o Flatten(Tail(pieces))

IsTextChar(ch) == ch \notin Separators \cup {"_"}

\* C29: every token is lowercase, has length at least 2 and is no stop
\* word, the binary search of is_stop_word agreeing with membership because
\* STOP_WORDS is strictly ascending; the tokens appear in input order, a
\* piece that occurs k times in the input occurring k times in the output.
C29_TokenizeOutput ==
    tDone =>
        /\ \A i \in 1..Len(tOut) :
              /\ ToLowercase(tOut[i]) = tOut[i]
              /\ Len(tOut[i]) >= 2
              /\ tOut[i] \notin StopWordSet
        /\ StopWordsAscending
        /\ \A i \in 1..Len(tPieces) :
              IsStopWord(ToLowercase(tPieces[i])) <=> (ToLowercase(tPieces[i]) \in StopWordSet)
        /\ Flatten(tPieces) = SelectSeq(tIn, IsTextChar)
        /\ tOut = SelectSeq([i \in 1..Len(tPieces) |-> ToLowercase(tPieces[i])], Kept)

\* A text in which one piece occurs twice and another is a stop word.
C29_Witness ==
    /\ tDone
    /\ \E i, j \in 1..Len(tOut) : i < j /\ tOut[i] = tOut[j]
    /\ \E i \in 1..Len(tPieces) : ToLowercase(tPieces[i]) \in StopWordSet
    /\ Len(tOut) < Len(tPieces)

(***************************************************************************)
(* Claims about Bm25fScorer.                                               *)
(***************************************************************************)

\* The document holds the token with a positive count in some field.
Holds(doc, token) ==
    /\ token \in DOMAIN doc.term_freqs
    /\ doc.term_freqs[token].filename + doc.term_freqs[token].symbols
          + doc.term_freqs[token].body > 0

\* C25: score and score_path return exactly 0 when the query tokenizes to
\* no terms or when the corpus has total_docs = 0, for every document, and
\* return 0 for a document that holds none of the query terms.
C25_ZeroScores ==
    mCalled # "none" =>
        LET tokens == Tokenize(mScorer.query)
        IN  (\/ tokens = <<>>
             \/ Len(mScorer.corpus) = 0
             \/ \A i \in 1..Len(tokens) : ~Holds(mDoc, tokens[i]))
                => mScore = <<>>

\* A document that holds the query term scored against an empty corpus.
C25_Witness ==
    /\ mCalled = "score_path"
    /\ Len(mScorer.corpus) = 0
    /\ mScorer.v.query_tokens # <<>>
    /\ \E i \in 1..Len(mScorer.v.query_tokens) : Holds(mDoc, mScorer.v.query_tokens[i])
    /\ mScore = <<>>

(***************************************************************************)
(* Claims about HeuristicScorer.                                           *)
(***************************************************************************)

\* C30: for every query, role and size, score gives the same result for a
\* path written with backslashes as for the same path written with forward
\* slashes, the keyword match, the depth score and the well-known-directory
\* bonus all agreeing, and the result lies in [0, 1].
C30_SeparatorsAgree ==
    uDone =>
        /\ KeywordScore(uScorer, uIn.windows) = KeywordScore(uScorer, uIn.unix)
        /\ DepthScore(uIn.windows) = DepthScore(uIn.unix)
        /\ WellknownScore(uIn.windows) = WellknownScore(uIn.unix)
        /\ uOut.windows = uOut.unix
        /\ 0 <= uOut.unix.num /\ uOut.unix.num <= uOut.unix.den
        /\ 0 <= uOut.windows.num /\ uOut.windows.num <= uOut.windows.den

(***************************************************************************)
(* Claims about the persisted index.                                       *)
(***************************************************************************)

\* C26: after any successful deep index run the paths of the persisted
\* index are the files of that run's scan that could be read: the run
\* either saves the newly built index or skips the save only when the
\* persisted snapshot already equals it.
C26_PersistedMatchesScan ==
    (run.some /\ run.deep) =>
        /\ disk.some
        /\ DOMAIN disk.v.files = DOMAIN run.index.v.files
        /\ DOMAIN disk.v.files \subseteq {run.files[i].path : i \in 1..Len(run.files)}
        /\ (run.saved \/ disk.v = run.index.v)
====
